---- MODULE Spec2Model ----
(***************************************************************************)
(* Verification model of the binary wire protocol core of                  *)
(* HighPerformanceAsyncMessagingServer: the dispatch registry              *)
(* (HandlerRegistry, MessageHandler) and the frame codec                   *)
(* (MessageSerializer, NetworkBuffer, crc32).                              *)
(*                                                                         *)
(* The module holds two state machines over disjoint variables:            *)
(*   Spec     the HandlerRegistry used by several threads                  *)
(*   SpecSer  one NetworkBuffer written by serialize_frame and a reader    *)
(*            that parses the written frame with deserialize_frame         *)
(* Each specification leaves the other machine's variables at their        *)
(* initial values.                                                         *)
(***************************************************************************)
EXTENDS Integers, Sequences, FiniteSets, TLC

VARIABLES
    m_handlers,   \* HandlerRegistry::m_handlers: map MessageType -> handler
    m_mutex,      \* HandlerRegistry::m_mutex: the thread that holds it, or NoThread
    handlers,     \* the IMessageHandler objects ever constructed
    nextId,       \* next handler object to be constructed
    stack,        \* per thread: the registry calls in progress, innermost last
    ret,          \* what the step just taken returned to its caller, if it returned:
                  \* the call, its argument (handler or type) and the value
    registered,   \* the types whose last successful mutation was a register
    m_buffer,     \* NetworkBuffer::m_buffer: the bytes of the output buffer
    m_write_pos,  \* NetworkBuffer::m_write_pos
    ser,          \* the last serialize_frame call: write position on entry,
                  \* return value and, when it succeeded, its arguments
    rx_flip,      \* the bit of the frame that was flipped in transit, if any
    rx_len,       \* how many bytes of the frame the reader has received
    de,           \* the reader's last deserialize_frame call: length passed,
                  \* return value, its header and payload variables, and the
                  \* return statement that was taken
    va,           \* the last validate_frame call: offset of the bytes in the
                  \* buffer, size passed, return value
    hc,           \* the last call of a message handler or of its decoder: the
                  \* memory and length passed, and what came of it
    crc_table_initialized,  \* crc32::crc_table_initialized
    crc_table_written,      \* how many leading entries of crc32::crc_table have
                            \* been stored
    crc_call,     \* per thread: its call of crc32::calculate, where it stands,
                  \* its locals, whether it read an entry not yet stored, and
                  \* the value returned
    bit_buffer,   \* the uint8_t buffer[] handed to BitPackUtils, zero-initialised
    bit_offset,   \* the offset the last pack call returned
    bit_fields,   \* the values packed so far: the call, its offset, its value
                  \* and its number of bits
    bit_call,     \* the last call of BitPackUtils: what was passed, the buffer
                  \* before it, and what it returned
    en,           \* the last call of EndianUtils: the function, the width of its
                  \* argument, the argument, the value returned, and, when the
                  \* argument was the value the call before returned, that call
    q_buffer,     \* LockFreeQueue::m_buffer: the ring of Capacity slots
    m_enqueue_pos,\* LockFreeQueue::m_enqueue_pos
    m_dequeue_pos,\* LockFreeQueue::m_dequeue_pos
    q_call,       \* per thread: its call of try_enqueue or try_dequeue, where it
                  \* stands, its locals, and what the call returned
    q_started,    \* how many calls the threads have started
    q_enqueued,   \* the values whose try_enqueue has returned true
    q_dequeued,   \* the values the successful calls of try_dequeue returned,
                  \* in the order of their return
    q_drain,      \* the consumers draining the queue: whether they have been
                  \* started, approximate_size() and the successful dequeues at
                  \* that time, and the consumers that have seen try_dequeue fail
    m_queue,      \* MutexQueue::m_queue
    mq_call,      \* the last call of the MutexQueue: what it returned
    pools,        \* the ThreadPool objects constructed so far
    m_workers,    \* ThreadPool::m_workers of each pool: the worker threads it holds
    m_task_queue, \* ThreadPool::m_task_queue of each pool
    m_shutdown,   \* ThreadPool::m_shutdown of each pool
    m_condition_variable,
                  \* ThreadPool::m_condition_variable of each pool: the workers
                  \* blocked in its wait()
    worker,       \* per worker thread: where it stands in workerLoop and the
                  \* task it has taken
    sub,          \* per submitting thread: its last call of submit, the pool and
                  \* the task, where it stands and how it ended
    sd,           \* the main thread's call of shutdown(): the pool, where it stands
    executed,     \* per task: how many times it was run
    submitted,    \* the tasks submit has pushed, with the pool they were pushed to
    next_task,    \* the next task to be submitted
    m_read_pos,   \* NetworkBuffer::m_read_pos
    nb_call,      \* the last call of the NetworkBuffer: the operation, the length
                  \* passed, the positions before it, and what it returned
    nb_ops,       \* how many calls of the NetworkBuffer were made
    conn,         \* the ConnectionHandler: m_is_active, m_write_buffer,
                  \* m_write_pos and m_bytes_sent
    socket_out,   \* the bytes send() has taken from the connection, in order
    ch_call,      \* the last call of the ConnectionHandler, what send() did in
                  \* it and what it returned
    ch_ops,       \* how many calls of the ConnectionHandler were made
    rd_input,     \* the byte stream a reader was handed: the frames it was
                  \* built from, what follows them, and the bytes
    rd_offset,    \* the reader's offset into the stream
    rd_header,    \* the reader's FrameHeader variable
    rd_payload,   \* the reader's payload vector
    rd_got,       \* the frames the reader obtained, in order
    rd_call,      \* the reader's last call: the function, the length passed,
                  \* what it returned and the indices of the input bytes it read
    m_connections,
                  \* AsyncServer::m_connections: the client sockets that have a
                  \* handler
    m_connections_mutex,
                  \* AsyncServer::m_connections_mutex: the thread that owns it
    loop          \* the event-loop thread: where it stands in process_events, the
                  \* client its iterator is at, that client's events, and the
                  \* iterations it has completed

serVars == <<m_buffer, m_write_pos, ser, rx_flip, rx_len, de>>

regVars == <<m_handlers, m_mutex, handlers, nextId, stack, ret, registered>>

valVars == <<va>>

msgVars == <<hc>>

crcVars == <<crc_table_initialized, crc_table_written, crc_call>>

bitVars == <<bit_buffer, bit_offset, bit_fields, bit_call>>

endVars == <<en>>

queueVars == <<q_buffer, m_enqueue_pos, m_dequeue_pos, q_call, q_started,
               q_enqueued, q_dequeued, q_drain, m_queue, mq_call>>

poolVars == <<pools, m_workers, m_task_queue, m_shutdown, m_condition_variable,
              worker, sub, sd, executed, submitted, next_task>>

netVars == <<m_read_pos, nb_call, nb_ops>>

connVars == <<conn, socket_out, ch_call, ch_ops>>

readVars == <<rd_input, rd_offset, rd_header, rd_payload, rd_got, rd_call>>

serverVars == <<m_connections, m_connections_mutex, loop>>

\* what the registry's operations leave alone
exceptReg == <<serVars, valVars, msgVars, crcVars, bitVars, endVars,
               queueVars, poolVars, netVars, connVars, readVars, serverVars>>

\* what the frame codec's operations leave alone
exceptSer == <<regVars, valVars, msgVars, crcVars, bitVars, endVars,
               queueVars, poolVars, netVars, connVars, readVars, serverVars>>

\* what a check of buffered bytes leaves alone
exceptSerVal == <<regVars, msgVars, crcVars, bitVars, endVars, queueVars,
                  poolVars, netVars, connVars, readVars, serverVars>>

\* what a message handler's call leaves alone
exceptMsg == <<regVars, serVars, valVars, crcVars, bitVars, endVars,
               queueVars, poolVars, netVars, connVars, readVars, serverVars>>

\* what a call of crc32::calculate leaves alone
exceptCrc == <<regVars, serVars, valVars, msgVars, bitVars, endVars,
               queueVars, poolVars, netVars, connVars, readVars, serverVars>>

\* what a call of BitPackUtils leaves alone
exceptBits == <<serVars, regVars, valVars, msgVars, crcVars, endVars,
                queueVars, poolVars, netVars, connVars, readVars, serverVars>>

\* what a call of EndianUtils leaves alone
exceptEnd == <<serVars, regVars, valVars, msgVars, crcVars, bitVars,
               queueVars, poolVars, netVars, connVars, readVars, serverVars>>

\* what a call of the queues leaves alone
exceptQueue == <<serVars, regVars, valVars, msgVars, crcVars, bitVars,
                 endVars, poolVars, netVars, connVars, readVars, serverVars>>

\* what the ThreadPool's operations leave alone
exceptPool == <<serVars, regVars, valVars, msgVars, crcVars, bitVars,
                endVars, queueVars, netVars, connVars, readVars, serverVars>>

\* what a call of the NetworkBuffer leaves alone
exceptNet == <<ser, rx_flip, rx_len, de, regVars, valVars, msgVars, crcVars,
               bitVars, endVars, queueVars, poolVars, connVars, readVars,
               serverVars>>

\* what a call of the ConnectionHandler leaves alone
exceptConn == <<serVars, regVars, valVars, msgVars, crcVars, bitVars,
                endVars, queueVars, poolVars, netVars, readVars, serverVars>>

\* what the reader of a byte stream leaves alone
exceptRead == <<serVars, regVars, valVars, msgVars, crcVars, bitVars,
                endVars, queueVars, poolVars, netVars, connVars, serverVars>>

\* what the AsyncServer's event loop leaves alone
exceptServer == <<serVars, regVars, valVars, msgVars, crcVars, bitVars,
                  endVars, queueVars, poolVars, netVars, connVars, readVars>>

----------------------------------------------------------------------------
(* Bounds of the registry model *)

\* handler objects constructed in one run
MaxHandlers == 2
\* registry calls in progress at once, on different threads or nested (a
\* callback calling the registry)
MaxCalls == 3

Threads == {"t1", "t2"}
NoThread == "none"

\* enum class MessageType (the two types the model registers and dispatches)
PING == 1
PONG == 2
MsgTypes == {PING, PONG}

\* nullptr
NullHandler == 0
\* m_handlers.end(): the key is not in the map
Absent == -1
HandlerIds == 1..MaxHandlers

----------------------------------------------------------------------------
(* State helpers *)

\* no call returned in the step just taken
NoRet == [op |-> "none", arg |-> 0, val |-> FALSE]

Top(t) == stack[t][Len(stack[t])]

Pop(t) == [stack EXCEPT ![t] = SubSeq(stack[t], 1, Len(stack[t]) - 1)]

SetTop(t, f) == [stack EXCEPT ![t][Len(stack[t])] = f]

Frame(op, pc, ty, h) == [op |-> op, pc |-> pc, type |-> ty, h |-> h]

CallsInProgress == Len(stack["t1"]) + Len(stack["t2"])

\* A thread may start a registry call when it is outside the registry, or when
\* it is running a user callback (which may call back into the registry).
CanCall(t) ==
    /\ CallsInProgress < MaxCalls
    /\ Len(stack[t]) > 0 => Top(t).pc = "callback"

\* std::lock_guard<std::mutex> lock(m_mutex): blocks until the mutex is free.
\* std::mutex is not recursive: a thread that already holds it never acquires it.
CanLock(t) == CanCall(t) /\ m_mutex = NoThread

InBody(t, op) ==
    /\ Len(stack[t]) > 0
    /\ Top(t).op = op
    /\ Top(t).pc = "body"
    /\ m_mutex = t

IsAlive(h) == h \in HandlerIds /\ handlers[h].state = "alive"

Destroy(hs) ==
    [h \in HandlerIds |->
        IF h \in hs THEN [type |-> PING, state |-> "destroyed"] ELSE handlers[h]]

----------------------------------------------------------------------------
(* The registry operations as functions of the map (the code under the lock) *)

\* The keys of the std::map
Keys == {ty \in MsgTypes : m_handlers[ty] # Absent}

Insert(ty, h) == [m_handlers EXCEPT ![ty] = h]

Erase(ty) == [m_handlers EXCEPT ![ty] = Absent]

\* A plausible slip: insert without the duplicate check; the assignment
\* destroys the handler that was registered.
register_handler_overwrite(h) ==
    LET ty == handlers[h].type IN
    [val |-> TRUE,
     map |-> Insert(ty, h),
     freed |-> IF ty \in Keys THEN {m_handlers[ty]} ELSE {}]

\* HandlerRegistry::register_handler, lines 15-25 (h is not null here).
\* On a duplicate the by-value unique_ptr parameter dies with the call and
\* destroys the handler that was passed in.
register_handler(h) ==
    LET ty == handlers[h].type IN
    IF ty \in Keys
    THEN [val |-> FALSE, map |-> m_handlers, freed |-> {h}]
    ELSE [val |-> TRUE, map |-> Insert(ty, h), freed |-> {}]

\* A plausible slip: report success although nothing was found.
unregister_handler_always_true(ty) ==
    IF ty \notin Keys
    THEN [val |-> TRUE, map |-> m_handlers, freed |-> {}]
    ELSE [val |-> TRUE, map |-> Erase(ty), freed |-> {m_handlers[ty]}]

\* HandlerRegistry::unregister_handler: erase destroys the owned handler.
unregister_handler(ty) ==
    IF ty \notin Keys
    THEN [val |-> FALSE, map |-> m_handlers, freed |-> {}]
    ELSE [val |-> TRUE, map |-> Erase(ty), freed |-> {m_handlers[ty]}]

\* A plausible slip: look up with operator[], which inserts a null entry.
get_handler_inserting(ty) ==
    IF ty \in Keys
    THEN [ptr |-> m_handlers[ty], map |-> m_handlers]
    ELSE [ptr |-> NullHandler, map |-> Insert(ty, NullHandler)]

\* HandlerRegistry::get_handler: find, return the raw pointer or nullptr.
get_handler(ty) ==
    IF ty \in Keys
    THEN [ptr |-> m_handlers[ty], map |-> m_handlers]
    ELSE [ptr |-> NullHandler, map |-> m_handlers]

\* HandlerRegistry::has_handler
has_handler(ty) == ty \in Keys

\* HandlerRegistry::handler_count
handler_count == Cardinality(Keys)

\* HandlerRegistry::clear: m_handlers.clear() destroys every owned handler.
clear ==
    [map |-> [ty \in MsgTypes |-> Absent],
     freed |-> {m_handlers[k] : k \in Keys} \ {NullHandler}]

----------------------------------------------------------------------------
(* Initial state: HandlerRegistry() = default, no call in progress *)

RegInit ==
    /\ m_handlers = [ty \in MsgTypes |-> Absent]
    /\ m_mutex = NoThread
    /\ handlers = [h \in HandlerIds |-> [type |-> PING, state |-> "unborn"]]
    /\ nextId = 1
    /\ stack = [t \in Threads |-> << >>]
    /\ ret = NoRet
    /\ registered = {}

----------------------------------------------------------------------------
(* Steps of a registry call *)

\* Acquire m_mutex and enter the function body.
Enter(t, f) ==
    /\ CanLock(t)
    /\ m_mutex' = t
    /\ stack' = [stack EXCEPT ![t] = Append(stack[t], f)]

\* Leave the innermost call: the lock_guard releases m_mutex, the value goes
\* to the caller.
Return(t, op, arg, val) ==
    /\ stack' = Pop(t)
    /\ ret' = [op |-> op, arg |-> arg, val |-> val]

\* register_handler(nullptr): lines 9-11, returns before the lock is taken.
RegisterNull(t) ==
    /\ CanCall(t)
    /\ ret' = [op |-> "register", arg |-> NullHandler, val |-> FALSE]
    /\ UNCHANGED <<m_handlers, m_mutex, handlers, nextId, stack, registered>>

\* The caller constructs a handler for type ty and passes it to
\* register_handler, which takes the lock (line 13).
RegisterCall(t, ty) ==
    /\ nextId <= MaxHandlers
    /\ Enter(t, Frame("register", "body", ty, nextId))
    /\ handlers' = [handlers EXCEPT ![nextId] =
                        [type |-> ty, state |-> "alive"]]
    /\ nextId' = nextId + 1
    /\ ret' = NoRet
    /\ UNCHANGED <<m_handlers, registered>>

\* register_handler lines 15-25 under the lock, then return.
RegisterBody(t) ==
    /\ InBody(t, "register")
    /\ LET r == register_handler(Top(t).h) IN
        /\ m_handlers' = r.map
        /\ handlers' = Destroy(r.freed)
        /\ Return(t, "register", Top(t).h, r.val)
        /\ registered' = IF r.val THEN registered \cup {Top(t).type} ELSE registered
    /\ m_mutex' = NoThread
    /\ UNCHANGED nextId

UnregisterCall(t, ty) ==
    /\ Enter(t, Frame("unregister", "body", ty, NullHandler))
    /\ ret' = NoRet
    /\ UNCHANGED <<m_handlers, handlers, nextId, registered>>

\* unregister_handler lines 32-38 under the lock, then return.
UnregisterBody(t) ==
    /\ InBody(t, "unregister")
    /\ LET r == unregister_handler(Top(t).type) IN
        /\ m_handlers' = r.map
        /\ handlers' = Destroy(r.freed)
        /\ Return(t, "unregister", Top(t).type, r.val)
        /\ registered' = IF r.val THEN registered \ {Top(t).type} ELSE registered
    /\ m_mutex' = NoThread
    /\ UNCHANGED nextId

ClearCall(t) ==
    /\ Enter(t, Frame("clear", "body", PING, NullHandler))
    /\ ret' = NoRet
    /\ UNCHANGED <<m_handlers, handlers, nextId, registered>>

\* clear(): HandlerRegistry.h lines 87-90.
ClearBody(t) ==
    /\ InBody(t, "clear")
    /\ m_handlers' = clear.map
    /\ handlers' = Destroy(clear.freed)
    /\ Return(t, "clear", 0, TRUE)
    /\ registered' = {}
    /\ m_mutex' = NoThread
    /\ UNCHANGED nextId

HasHandlerCall(t, ty) ==
    /\ Enter(t, Frame("has_handler", "body", ty, NullHandler))
    /\ ret' = NoRet
    /\ UNCHANGED <<m_handlers, handlers, nextId, registered>>

HasHandlerBody(t) ==
    /\ InBody(t, "has_handler")
    /\ Return(t, "has_handler", Top(t).type, has_handler(Top(t).type))
    /\ m_mutex' = NoThread
    /\ UNCHANGED <<m_handlers, handlers, nextId, registered>>

HandlerCountCall(t) ==
    /\ Enter(t, Frame("handler_count", "body", PING, NullHandler))
    /\ ret' = NoRet
    /\ UNCHANGED <<m_handlers, handlers, nextId, registered>>

HandlerCountBody(t) ==
    /\ InBody(t, "handler_count")
    /\ Return(t, "handler_count", 0, handler_count)
    /\ m_mutex' = NoThread
    /\ UNCHANGED <<m_handlers, handlers, nextId, registered>>

\* dispatch(type, payload, length): line 57 calls get_handler, which takes the
\* lock.
DispatchCall(t, ty) ==
    /\ Enter(t, Frame("dispatch", "body", ty, NullHandler))
    /\ ret' = NoRet
    /\ UNCHANGED <<m_handlers, handlers, nextId, registered>>

\* A plausible slip: dispatch keeps the lock while it calls the handler.
DispatchGetHoldingLock(t) ==
    /\ InBody(t, "dispatch")
    /\ LET r == get_handler(Top(t).type) IN
        /\ m_handlers' = r.map
        /\ IF r.ptr = NullHandler
           THEN Return(t, "dispatch", Top(t).type, FALSE) /\ m_mutex' = NoThread
           ELSE /\ stack' = SetTop(t, [Top(t) EXCEPT !.pc = "call", !.h = r.ptr])
                /\ m_mutex' = m_mutex
                /\ ret' = NoRet
    /\ UNCHANGED <<handlers, nextId, registered>>

\* dispatch lines 57-62: get_handler looks the handler up under the lock and
\* releases it on return; a null result makes dispatch return false.
DispatchGet(t) ==
    /\ InBody(t, "dispatch")
    /\ LET r == get_handler(Top(t).type) IN
        /\ m_handlers' = r.map
        /\ IF r.ptr = NullHandler
           THEN Return(t, "dispatch", Top(t).type, FALSE)
           ELSE /\ stack' = SetTop(t, [Top(t) EXCEPT !.pc = "call", !.h = r.ptr])
                /\ ret' = NoRet
    /\ m_mutex' = NoThread
    /\ UNCHANGED <<handlers, nextId, registered>>

\* dispatch line 64: the virtual call handler->handle(payload, length) through
\* the raw pointer; nothing checks that the handler still exists.
\* MessageHandler<T>::handle lines 69-84: false for a payload that is null,
\* too short or not decodable (ok), else the callback is called when the
\* handler was built with one (fn), else true. On a destroyed handler the
\* call is undefined; its outcomes are among the same three.
Handle(t) ==
    /\ Len(stack[t]) > 0
    /\ Top(t).op = "dispatch"
    /\ Top(t).pc = "call"
    /\ \E ok \in BOOLEAN, fn \in BOOLEAN :
        IF ~ok THEN Return(t, "dispatch", Top(t).type, FALSE)
        ELSE IF fn THEN /\ stack' = SetTop(t, [Top(t) EXCEPT !.pc = "callback"])
                        /\ ret' = NoRet
        ELSE Return(t, "dispatch", Top(t).type, TRUE)
    /\ UNCHANGED <<m_handlers, m_mutex, handlers, nextId, registered>>

\* The user callback m_handler(msg) returns r; handle and dispatch return it.
CallbackReturn(t, r) ==
    /\ Len(stack[t]) > 0
    /\ Top(t).op = "dispatch"
    /\ Top(t).pc = "callback"
    /\ Return(t, "dispatch", Top(t).type, r)
    /\ UNCHANGED <<m_handlers, m_mutex, handlers, nextId, registered>>

----------------------------------------------------------------------------
(* Bounds and constants of the frame codec model *)

\* longest payload, in bytes
MaxPayload == 1
\* capacity of the NetworkBuffer (its constructor's initial_capacity)
BufSize == 25

ECHO == 3
PROTOCOL_MAGIC == 171
PROTOCOL_VERSION == 1
FRAME_HEADER_SIZE == 8
CHECKSUM_SIZE == 4
MIN_FRAME_SIZE == FRAME_HEADER_SIZE + CHECKSUM_SIZE
MAX_PAYLOAD_SIZE == 65535

Bytes == 0..255

\* The arguments the model passes to serialize_frame
PayloadBytes == {0, 1}
Payloads == UNION {[1..n -> PayloadBytes] : n \in 0..MaxPayload}
Headers ==
    [magic : {PROTOCOL_MAGIC, 0},
     version : {PROTOCOL_VERSION, 2},
     message_type : {ECHO},
     flags : {5},
     payload_length : 0..MaxPayload,
     reserved : {258}]

----------------------------------------------------------------------------
(* 32-bit unsigned words as two 16-bit halves; bitwise operations *)

Word(hi, lo) == [hi |-> hi, lo |-> lo]

RECURSIVE XorBits(_, _, _)
\* a ^ b for a, b below 2^n, n a power of two: the two halves, each on its own
XorBits(a, b, n) ==
    IF n = 1 THEN (a + b) % 2
    ELSE LET m == 2 ^ (n \div 2) IN
         XorBits(a \div m, b \div m, n \div 2) * m + XorBits(a % m, b % m, n \div 2)

\* a ^ b for a, b in 0..65535
Xor(a, b) == XorBits(a, b, 16)

\* the uint32_t values
Words == [hi : 0..65535, lo : 0..65535]

\* x ^ y on words, as a function: both operands are values before their
\* halves are combined
xor_w == [x \in Words, y \in Words |-> Word(Xor(x.hi, y.hi), Xor(x.lo, y.lo))]

XorW(x, y) == xor_w[x, y]

\* x >> n for n in 1..16
ShrW(x, n) ==
    LET m == 2 ^ n IN
    Word(x.hi \div m, (x.lo \div m) + (x.hi % m) * (65536 \div m))

\* The four bytes of a word, least significant first
WordBytes(x) == <<x.lo % 256, x.lo \div 256, x.hi % 256, x.hi \div 256>>

\* The word of four bytes, least significant first
BytesWord(b0, b1, b2, b3) == Word(b2 + 256 * b3, b0 + 256 * b1)

----------------------------------------------------------------------------
(* crc32 (BinaryProtocol.cpp) *)

\* A plausible slip: the polynomial in its unreflected form, 0x04C11DB7.
POLY_unreflected == Word(1217, 7607)

\* 0xEDB88320
POLY == Word(60856, 33568)

RECURSIVE TableEntry(_, _)
\* initialize_crc_table, the inner loop: j more rounds on crc
TableEntry(crc, j) ==
    IF j = 0 THEN crc
    ELSE IF crc.lo % 2 = 1
         THEN TableEntry(XorW(ShrW(crc, 1), POLY), j - 1)
         ELSE TableEntry(ShrW(crc, 1), j - 1)

\* the table once initialize_crc_table has run
crc_table == [i \in 0..255 |-> TableEntry(Word(0, i), 8)]

\* crc32::calculate, the loop body: one round on crc with the next byte,
\* reading the table as it stands
Round(table, crc, byte) ==
    LET index == Xor(crc.lo % 256, byte) IN
    XorW(ShrW(crc, 8), table[index])

\* the loop body on the initialized table
crc_round ==
    [crc \in Words, byte \in 0..255 |-> Round(crc_table, crc, byte)]

RECURSIVE CrcLoop(_, _, _, _)
\* crc32::calculate, the loop over data[from .. from + length - 1]
\* (data is 1-based here: data[from + 1] is the C++ data[from])
CrcLoop(crc, data, from, length) ==
    IF length = 0 THEN crc
    ELSE CrcLoop(crc_round[crc, data[from + 1]], data, from + 1, length - 1)

\* crc32::calculate(data + from, length)
calculate(data, from, length) ==
    XorW(CrcLoop(Word(65535, 65535), data, from, length), Word(65535, 65535))

----------------------------------------------------------------------------
(* NetworkBuffer: a buffer is [buf, wpos] *)

\* NetworkBuffer::write(data, length)
write(nb, data) ==
    IF nb.wpos + Len(data) > Len(nb.buf)
    THEN [ok |-> FALSE, nb |-> nb]
    ELSE [ok |-> TRUE,
          nb |-> [buf |-> [i \in 1..Len(nb.buf) |->
                              IF i > nb.wpos /\ i <= nb.wpos + Len(data)
                              THEN data[i - nb.wpos] ELSE nb.buf[i]],
                  wpos |-> nb.wpos + Len(data)]]

write_byte(nb, byte) == write(nb, <<byte>>)

write_uint16(nb, value) == write(nb, <<value % 256, (value \div 256) % 256>>)

\* a && chain: the writes in order, stopping at the first that fails
RECURSIVE WriteAll(_, _)
WriteAll(nb, chunks) ==
    IF chunks = << >> THEN [ok |-> TRUE, nb |-> nb]
    ELSE LET w == write(nb, Head(chunks)) IN
         IF w.ok THEN WriteAll(w.nb, Tail(chunks)) ELSE w

----------------------------------------------------------------------------
(* MessageSerializer *)

\* FrameHeader::is_valid
is_valid(h) ==
    /\ h.magic = PROTOCOL_MAGIC
    /\ h.version = PROTOCOL_VERSION
    /\ h.payload_length <= MAX_PAYLOAD_SIZE

\* MessageSerializer::serialize_header
serialize_header(h, nb) ==
    WriteAll(nb, << <<h.magic>>, <<h.version>>, <<h.message_type>>, <<h.flags>>,
                    <<h.payload_length % 256, (h.payload_length \div 256) % 256>>,
                    <<h.reserved % 256, (h.reserved \div 256) % 256>> >>)

\* MessageSerializer::serialize_payload_and_checksum: the checksum is taken
\* over buffer.data() + FRAME_HEADER_SIZE, counted from the start of the buffer.
serialize_payload_and_checksum(payload, payload_length, nb) ==
    LET w == write(nb, SubSeq(payload, 1, payload_length)) IN
    IF ~w.ok THEN w
    ELSE LET out_checksum == calculate(w.nb.buf, FRAME_HEADER_SIZE, payload_length)
         IN write(w.nb, WordBytes(out_checksum))

\* MessageSerializer::serialize_frame
serialize_frame(h, payload, payload_length, nb) ==
    IF ~is_valid(h) THEN [ok |-> FALSE, nb |-> nb]
    ELSE LET hw == serialize_header(h, nb) IN
         IF ~hw.ok THEN hw
         ELSE serialize_payload_and_checksum(payload, payload_length, hw.nb)

\* MessageSerializer::calculate_frame_size
calculate_frame_size(h) == FRAME_HEADER_SIZE + h.payload_length + CHECKSUM_SIZE

\* A plausible slip: the version byte is left out of the validity check.
deserialize_header_any_version(data, length, header) ==
    IF length < FRAME_HEADER_SIZE
    THEN [n |-> 0, header |-> header, at |-> "insufficient"]
    ELSE LET h == [magic |-> data[1],
                   version |-> data[2],
                   message_type |-> data[3],
                   flags |-> data[4],
                   payload_length |-> data[5] + 256 * data[6],
                   reserved |-> data[7] + 256 * data[8]]
         IN IF h.magic # PROTOCOL_MAGIC
            THEN [n |-> 0, header |-> h, at |-> "invalid_header"]
            ELSE [n |-> FRAME_HEADER_SIZE, header |-> h, at |-> "ok"]

\* MessageSerializer::deserialize_header: [n, header, at]; at names the
\* return statement taken
deserialize_header(data, length, header) ==
    IF length < FRAME_HEADER_SIZE
    THEN [n |-> 0, header |-> header, at |-> "insufficient"]
    ELSE LET h == [magic |-> data[1],
                   version |-> data[2],
                   message_type |-> data[3],
                   flags |-> data[4],
                   payload_length |-> data[5] + 256 * data[6],
                   reserved |-> data[7] + 256 * data[8]]
         IN IF ~is_valid(h)
            THEN [n |-> 0, header |-> h, at |-> "invalid_header"]
            ELSE [n |-> FRAME_HEADER_SIZE, header |-> h, at |-> "ok"]

\* the checksum stored behind the payload, read as a little-endian word
ReceivedChecksum(data, h) ==
    LET c == FRAME_HEADER_SIZE + h.payload_length IN
    BytesWord(data[c + 1], data[c + 2], data[c + 3], data[c + 4])

\* A plausible slip: report the header's bytes as consumed while the frame
\* is still incomplete.
deserialize_frame_header_consumed(data, length, header, payload) ==
    LET hd == deserialize_header(data, length, header) IN
    IF hd.n = 0
    THEN [consumed |-> 0, header |-> hd.header, payload |-> payload, at |-> hd.at]
    ELSE IF length < calculate_frame_size(hd.header)
    THEN [consumed |-> hd.n, header |-> hd.header, payload |-> payload,
          at |-> "insufficient"]
    ELSE IF ReceivedChecksum(data, hd.header)
              # calculate(data, FRAME_HEADER_SIZE, hd.header.payload_length)
    THEN [consumed |-> 0, header |-> hd.header, payload |-> payload,
          at |-> "checksum"]
    ELSE [consumed |-> calculate_frame_size(hd.header),
          header |-> hd.header,
          payload |-> SubSeq(data, FRAME_HEADER_SIZE + 1,
                             FRAME_HEADER_SIZE + hd.header.payload_length),
          at |-> "ok"]

\* A plausible slip: the checksum is taken over the header and the payload.
deserialize_frame_checksum_header(data, length, header, payload) ==
    LET hd == deserialize_header(data, length, header) IN
    IF hd.n = 0
    THEN [consumed |-> 0, header |-> hd.header, payload |-> payload, at |-> hd.at]
    ELSE IF length < calculate_frame_size(hd.header)
    THEN [consumed |-> 0, header |-> hd.header, payload |-> payload,
          at |-> "insufficient"]
    ELSE IF ReceivedChecksum(data, hd.header)
              # calculate(data, 0, FRAME_HEADER_SIZE + hd.header.payload_length)
    THEN [consumed |-> 0, header |-> hd.header, payload |-> payload,
          at |-> "checksum"]
    ELSE [consumed |-> calculate_frame_size(hd.header),
          header |-> hd.header,
          payload |-> SubSeq(data, FRAME_HEADER_SIZE + 1,
                             FRAME_HEADER_SIZE + hd.header.payload_length),
          at |-> "ok"]

\* A plausible slip: everything that was passed is reported as consumed.
deserialize_frame_consumed_all(data, length, header, payload) ==
    LET hd == deserialize_header(data, length, header) IN
    IF hd.n = 0
    THEN [consumed |-> 0, header |-> hd.header, payload |-> payload, at |-> hd.at]
    ELSE IF length < calculate_frame_size(hd.header)
    THEN [consumed |-> 0, header |-> hd.header, payload |-> payload,
          at |-> "insufficient"]
    ELSE IF ReceivedChecksum(data, hd.header)
              # calculate(data, FRAME_HEADER_SIZE, hd.header.payload_length)
    THEN [consumed |-> 0, header |-> hd.header, payload |-> payload,
          at |-> "checksum"]
    ELSE [consumed |-> length,
          header |-> hd.header,
          payload |-> SubSeq(data, FRAME_HEADER_SIZE + 1,
                             FRAME_HEADER_SIZE + hd.header.payload_length),
          at |-> "ok"]

\* A plausible slip: the payload is assigned before the checksum is compared.
deserialize_frame_assign_early(data, length, header, payload) ==
    LET hd == deserialize_header(data, length, header) IN
    IF hd.n = 0
    THEN [consumed |-> 0, header |-> hd.header, payload |-> payload, at |-> hd.at]
    ELSE IF length < calculate_frame_size(hd.header)
    THEN [consumed |-> 0, header |-> hd.header, payload |-> payload,
          at |-> "insufficient"]
    ELSE LET extracted == SubSeq(data, FRAME_HEADER_SIZE + 1,
                                 FRAME_HEADER_SIZE + hd.header.payload_length)
         IN IF ReceivedChecksum(data, hd.header)
                 # calculate(data, FRAME_HEADER_SIZE, hd.header.payload_length)
            THEN [consumed |-> 0, header |-> hd.header, payload |-> extracted,
                  at |-> "checksum"]
            ELSE [consumed |-> calculate_frame_size(hd.header),
                  header |-> hd.header, payload |-> extracted, at |-> "ok"]

\* MessageSerializer::deserialize_frame: [consumed, header, payload, at];
\* header and payload are the caller's variables after the call, at names
\* the return statement taken
deserialize_frame(data, length, header, payload) ==
    LET hd == deserialize_header(data, length, header) IN
    IF hd.n = 0
    THEN [consumed |-> 0, header |-> hd.header, payload |-> payload, at |-> hd.at]
    ELSE IF length < calculate_frame_size(hd.header)
    THEN [consumed |-> 0, header |-> hd.header, payload |-> payload,
          at |-> "insufficient"]
    ELSE IF ReceivedChecksum(data, hd.header)
              # calculate(data, FRAME_HEADER_SIZE, hd.header.payload_length)
    THEN [consumed |-> 0, header |-> hd.header, payload |-> payload,
          at |-> "checksum"]
    ELSE [consumed |-> calculate_frame_size(hd.header),
          header |-> hd.header,
          payload |-> SubSeq(data, FRAME_HEADER_SIZE + 1,
                             FRAME_HEADER_SIZE + hd.header.payload_length),
          at |-> "ok"]

\* MessageSerializer::validate_frame
validate_frame(frame_data, frame_size) ==
    IF frame_size < MIN_FRAME_SIZE THEN FALSE
    ELSE LET hd == deserialize_header(frame_data, frame_size, [magic |-> 0]) IN
         IF hd.n = 0 THEN FALSE
         ELSE IF frame_size # calculate_frame_size(hd.header) THEN FALSE
         ELSE ReceivedChecksum(frame_data, hd.header)
                 = calculate(frame_data, FRAME_HEADER_SIZE, hd.header.payload_length)

\* The frame of header h and payload p as the wire format lays it out: the
\* eight header bytes, the payload, the CRC32 of the payload.
FrameOf(h, p) ==
    << h.magic, h.version, h.message_type, h.flags,
       h.payload_length % 256, h.payload_length \div 256,
       h.reserved % 256, h.reserved \div 256 >>
    \o p \o WordBytes(calculate(p, 0, Len(p)))

----------------------------------------------------------------------------
(* The writer, the wire and the reader *)

\* the reader's FrameHeader before any call filled it in
UnsetHeader ==
    [magic |-> 0, version |-> 0, message_type |-> 0, flags |-> 0,
     payload_length |-> 0, reserved |-> 0]

NoCall == [called |-> FALSE, h |-> UnsetHeader, payload |-> << >>, start |-> 0,
           ok |-> FALSE]

NoParse == [len |-> -1, consumed |-> 0, header |-> UnsetHeader, payload |-> << >>,
            at |-> "none"]

NoFlip == << >>

\* the bytes the last serialize_frame call left in the buffer
Written == SubSeq(m_buffer, ser.start + 1, m_write_pos)

\* byte with bit b (0..7) inverted
FlipBit(byte, b) ==
    IF (byte \div (2 ^ b)) % 2 = 1 THEN byte - 2 ^ b ELSE byte + 2 ^ b

\* the bytes w with bit flip[2] of byte flip[1] inverted, if any
Flipped(w, flip) ==
    IF flip = NoFlip THEN w
    ELSE [i \in 1..Len(w) |-> IF i = flip[1] THEN FlipBit(w[i], flip[2]) ELSE w[i]]

\* the frame as it arrives at the reader
Wire == Flipped(Written, rx_flip)

SerInit ==
    /\ m_buffer = [i \in 1..BufSize |-> 0]
    /\ m_write_pos = 0
    /\ ser = NoCall
    /\ rx_flip = NoFlip
    /\ rx_len = 0
    /\ de = NoParse

\* One call serialize_frame(h, payload, Len(payload), buffer) by the writer,
\* before the reader starts on the frame written last.
Serialize(h, payload) ==
    /\ de = NoParse
    /\ rx_flip = NoFlip
    /\ LET r == serialize_frame(h, payload, Len(payload),
                                [buf |-> m_buffer, wpos |-> m_write_pos]) IN
        /\ m_buffer' = r.nb.buf
        /\ m_write_pos' = r.nb.wpos
        /\ ser' = IF r.ok
                   THEN [called |-> TRUE, h |-> h, payload |-> payload,
                         start |-> m_write_pos, ok |-> TRUE]
                   ELSE [NoCall EXCEPT !.called = TRUE, !.start = m_write_pos]
    /\ rx_flip' = NoFlip
    /\ rx_len' = 0
    /\ de' = NoParse

\* NetworkBuffer::clear: zero the bytes, reset the positions.
Clear ==
    /\ m_buffer' = [i \in 1..BufSize |-> 0]
    /\ m_write_pos' = 0
    /\ ser' = NoCall
    /\ rx_flip' = NoFlip
    /\ rx_len' = 0
    /\ de' = NoParse

\* The reader calls deserialize_frame on what it has received, keeping its
\* header and payload variables from call to call.
Parse(data) ==
    LET r == deserialize_frame(data, Len(data), de.header, de.payload) IN
    de' = [len |-> Len(data), consumed |-> r.consumed, header |-> r.header,
           payload |-> r.payload, at |-> r.at]

\* The reader polls: k more bytes of the frame have arrived (k = 0 or 1),
\* and it parses its input from the start.
Poll(k) ==
    /\ ser.ok
    /\ rx_len + k <= Len(Wire)
    /\ UNCHANGED <<m_buffer, m_write_pos, ser, rx_flip>>
    /\ rx_len' = rx_len + k
    /\ Parse(SubSeq(Wire, 1, rx_len + k))

\* Bit b of byte i of the frame, not yet received, is flipped in transit; the
\* rest of the frame arrives, and the reader parses the complete frame.
Corrupt(i, b) ==
    /\ ser.ok
    /\ rx_flip = NoFlip
    /\ i \in (rx_len + 1)..Len(Written)
    /\ UNCHANGED <<m_buffer, m_write_pos, ser>>
    /\ rx_flip' = <<i, b>>
    /\ rx_len' = Len(Written)
    /\ Parse(Flipped(Written, <<i, b>>))

----------------------------------------------------------------------------
(* A caller that checks the bytes held in the buffer *)

NoValidate == [off |-> 0, len |-> -1, valid |-> FALSE]

ValInit == va = NoValidate

\* The caller passes the n bytes at offset off of the buffer, a frame's start
\* or the buffer's, to validate_frame and, with a fresh header and payload,
\* to deserialize_frame; the model follows one such check per buffer content.
Check(off, n) ==
    /\ va = NoValidate
    /\ off \in {0, ser.start}
    /\ off + n <= m_write_pos
    /\ LET data == SubSeq(m_buffer, off + 1, off + n)
           r == deserialize_frame(data, n, UnsetHeader, << >>)
       IN /\ de' = [len |-> n, consumed |-> r.consumed, header |-> r.header,
                    payload |-> r.payload, at |-> r.at]
          /\ va' = [off |-> off, len |-> n, valid |-> validate_frame(data, n)]
    /\ UNCHANGED <<m_buffer, m_write_pos, ser, rx_flip, rx_len>>

----------------------------------------------------------------------------
(* Message payload decoders (ProtocolMessages.h) and MessageHandler<T>::handle *)

\* how far past the sizes the decoders compare against the inputs reach
MaxSlack == 2

DATA == 4
STATUS == 5

\* EchoMessage::MAX_DATA
MAX_DATA == 256
\* DataMessage::data.size()
DATA_SIZE == 512
\* StatusMessage::message.size()
MESSAGE_SIZE == 64

\* The struct layouts a build can have: uint64_t aligned to 8 bytes (x86-64,
\* AArch64, Win64) or to 4 bytes (i386 System V). Either way the host is
\* little-endian, as the header's own byte-wise decoding assumes on the wire.
ABIs == {"align8", "align4"}

\* sizeof(T)
SizeOf(T, abi) ==
    CASE T = PING -> IF abi = "align8" THEN 16 ELSE 12
      [] T = ECHO -> MAX_DATA + 2
      [] T = DATA -> 2 + 2 + DATA_SIZE + 2
      [] T = STATUS -> 1 + 1 + 2 + MESSAGE_SIZE

\* offsetof(PingMessage, timestamp)
TimestampOffset(abi) == IF abi = "align8" THEN 8 ELSE 4

\* the byte at data[i] (C++ index, from 0)
At(data, i) == data[i + 1]

\* the uint16_t stored at data + off, read on a little-endian host
U16(data, off) == At(data, off) + 256 * At(data, off + 1)

\* a message object nothing was decoded into
NoMsg == [set |-> FALSE]

\* A decoder's outcome: its return value, the message it filled in, and the
\* number of bytes it stored into the message's array.
Decoded(ok, msg, written) == [ok |-> ok, msg |-> msg, written |-> written]

\* PingHandler::deserialize_payload: memcpy of sizeof(PingMessage) bytes onto
\* the struct; the fields are kept as their bytes, least significant first
PingHandler_deserialize_payload(data, length, abi) ==
    IF length < SizeOf(PING, abi) THEN Decoded(FALSE, NoMsg, 0)
    ELSE Decoded(TRUE,
                 [set |-> TRUE,
                  sequence_id |-> SubSeq(data, 1, 4),
                  timestamp |-> SubSeq(data, TimestampOffset(abi) + 1,
                                       TimestampOffset(abi) + 8)],
                 0)

\* A plausible slip: the check of length against MAX_DATA + 2 is left out.
EchoHandler_deserialize_payload_unchecked(data, length) ==
    IF length < 2 THEN Decoded(FALSE, NoMsg, 0)
    ELSE LET len == U16(data, 0) IN
         IF length < 2 + len THEN Decoded(FALSE, NoMsg, 0)
         ELSE Decoded(TRUE,
                      [set |-> TRUE, length |-> len,
                       data |-> SubSeq(data, 3, 2 + len)],
                      len)

\* EchoHandler::deserialize_payload
EchoHandler_deserialize_payload(data, length) ==
    IF length > MAX_DATA + 2 THEN Decoded(FALSE, NoMsg, 0)
    ELSE IF length < 2 THEN Decoded(FALSE, NoMsg, 0)
    ELSE LET len == U16(data, 0) IN
         IF length < 2 + len THEN Decoded(FALSE, NoMsg, 0)
         ELSE Decoded(TRUE,
                      [set |-> TRUE, length |-> len,
                       data |-> SubSeq(data, 3, 2 + len)],
                      len)

\* DataHandler::deserialize_payload
DataHandler_deserialize_payload(data, length) ==
    IF length < 4 THEN Decoded(FALSE, NoMsg, 0)
    ELSE LET data_type == U16(data, 0)
             data_id == U16(data, 2)
             data_length == U16(data, 4)
         IN IF data_length > DATA_SIZE THEN Decoded(FALSE, NoMsg, 0)
            ELSE IF length < 6 + data_length THEN Decoded(FALSE, NoMsg, 0)
            ELSE Decoded(TRUE,
                         [set |-> TRUE, data_type |-> data_type,
                          data_id |-> data_id, data_length |-> data_length,
                          data |-> SubSeq(data, 7, 6 + data_length)],
                         data_length)

\* the input bytes DataHandler::deserialize_payload reads, as indices from
\* data: the three memcpy of two bytes, and the memcpy of the data
DataHandler_deserialize_payload_reads(data, length) ==
    IF length < 4 THEN {}
    ELSE LET data_length == U16(data, 4)
         IN (0..5) \cup (IF data_length > DATA_SIZE THEN {}
                         ELSE IF length < 6 + data_length THEN {}
                         ELSE 6..(6 + data_length - 1))

\* StatusHandler::deserialize_payload; message holds the copied bytes and the
\* terminator
StatusHandler_deserialize_payload(data, length) ==
    IF length < 3 THEN Decoded(FALSE, NoMsg, 0)
    ELSE LET msg_len == IF length - 3 > MESSAGE_SIZE - 1
                        THEN MESSAGE_SIZE - 1 ELSE length - 3
         IN Decoded(TRUE,
                    [set |-> TRUE, status_code |-> At(data, 0),
                     error_code |-> U16(data, 1),
                     message |-> SubSeq(data, 4, 3 + msg_len) \o <<0>>],
                    msg_len + 1)

\* the deserialize_payload override of the handler for message type T
deserialize_payload(T, data, length, abi) ==
    CASE T = PING -> PingHandler_deserialize_payload(data, length, abi)
      [] T = ECHO -> EchoHandler_deserialize_payload(data, length)
      [] T = DATA -> DataHandler_deserialize_payload(data, length)
      [] T = STATUS -> StatusHandler_deserialize_payload(data, length)

\* MessageHandler<T>::handle on a non-null payload, for a handler whose
\* callback is set (fn) and returns r: the value returned, whether the
\* callback ran, and the message it was given
handle(T, data, length, abi, fn, r) ==
    IF length < SizeOf(T, abi)
    THEN [ret |-> FALSE, invoked |-> FALSE, msg |-> NoMsg, written |-> 0]
    ELSE LET d == deserialize_payload(T, data, length, abi) IN
         IF ~d.ok
         THEN [ret |-> FALSE, invoked |-> FALSE, msg |-> NoMsg,
               written |-> d.written]
         ELSE IF fn
         THEN [ret |-> r, invoked |-> TRUE, msg |-> d.msg, written |-> d.written]
         ELSE [ret |-> TRUE, invoked |-> FALSE, msg |-> NoMsg,
               written |-> d.written]

----------------------------------------------------------------------------
(* Callers of the message handlers *)

LE16(v) == <<v % 256, v \div 256>>

\* 12345 as a uint32_t, least significant byte first
SequenceIds == {<<57, 48, 0, 0>>, <<255, 255, 255, 255>>}

Timestamps == {<<1, 2, 3, 4, 5, 6, 7, 8>>, <<0, 0, 0, 0, 0, 0, 0, 128>>}

\* n payload bytes, none of them zero
Fill(n) == [i \in 1..n |-> (i % 255) + 1]

\* the values of 0..max within MaxSlack of a value of S
Near(S, max) == {x \in 0..max : \E s \in S : x - s \in (0 - MaxSlack)..MaxSlack}

\* the lengths a variable-length message declares for its data
Declared(T) ==
    CASE T = ECHO -> Near({0, MAX_DATA}, MAX_DATA + MaxSlack) \cup {65535}
      [] T = DATA -> Near({0, DATA_SIZE}, DATA_SIZE + MaxSlack) \cup {65535}
      [] T = STATUS -> {0}

\* the bytes before the data: Echo's length; Data's type, id and length;
\* Status's status_code and error_code
Prefix(T, declared) ==
    CASE T = ECHO -> LE16(declared)
      [] T = DATA -> LE16(258) \o LE16(772) \o LE16(declared)
      [] T = STATUS -> <<7>> \o LE16(513)

\* the payload lengths passed for a message of type T that declares declared
\* bytes of data
Lengths(T, declared) ==
    Near({0, Len(Prefix(T, declared)), Len(Prefix(T, declared)) + declared,
          SizeOf(T, "align8")},
         SizeOf(T, "align8") + MaxSlack)

\* a payload of length bytes: the prefix and fill bytes, cut to length
Payload(T, declared, length) ==
    SubSeq(Prefix(T, declared) \o Fill(length), 1, length)

\* what lies in memory behind a payload
Junk == {0, 255}

NoHandle ==
    [via |-> "none", type |-> 0, abi |-> "any", data |-> << >>, length |-> 0,
     ret |-> FALSE, invoked |-> FALSE, msg |-> NoMsg, written |-> 0,
     frame |-> << >>, consumed |-> 0, payload |-> << >>,
     fn |-> FALSE, r |-> FALSE]

MsgInit == hc = NoHandle

\* handler->handle(payload, length) on a handler for Echo, Data or Status;
\* the handlers keep no state, and the model follows one call.
HandleCall(T, declared, length, junk, fn, r) ==
    /\ hc = NoHandle
    /\ fn \/ r
    /\ LET data == Payload(T, declared, length) \o <<junk, junk>>
           h == handle(T, data, length, "align8", fn, r)
       IN hc' = [NoHandle EXCEPT !.via = "handle", !.type = T, !.data = data,
                                 !.length = length, !.ret = h.ret, !.r = r,
                                 !.fn = fn,
                                 !.invoked = h.invoked, !.msg = h.msg,
                                 !.written = h.written]

\* deserialize_payload(data, length, msg) called directly
DecodeCall(T, declared, length, junk) ==
    /\ hc = NoHandle
    /\ LET data == Payload(T, declared, length) \o <<junk, junk>>
           d == deserialize_payload(T, data, length, "align8")
       IN hc' = [NoHandle EXCEPT !.via = "decode", !.type = T, !.data = data,
                                 !.length = length, !.ret = d.ok,
                                 !.msg = d.msg, !.written = d.written]

\* The Ping scenario, in the three steps a message takes from a sender to a
\* handler. PingSend: the 12 wire bytes of a Ping (sequence_id, then
\* timestamp) are framed into an empty buffer.
PingSend(abi, sequence_id, timestamp) ==
    /\ hc = NoHandle
    /\ LET wire == sequence_id \o timestamp
           header == [magic |-> PROTOCOL_MAGIC, version |-> PROTOCOL_VERSION,
                      message_type |-> PING, flags |-> 0,
                      payload_length |-> Len(wire), reserved |-> 0]
           s == serialize_frame(header, wire, Len(wire),
                                [buf |-> [i \in 1..BufSize |-> 0], wpos |-> 0])
       IN /\ s.ok
          /\ hc' = [NoHandle EXCEPT !.via = "sent", !.type = PING, !.abi = abi,
                                    !.data = wire,
                                    !.frame = SubSeq(s.nb.buf, 1, s.nb.wpos)]

\* PingReceive: the receiver deserializes the frame
PingReceive ==
    /\ hc.via = "sent"
    /\ LET d == deserialize_frame(hc.frame, Len(hc.frame), UnsetHeader, << >>)
       IN hc' = [hc EXCEPT !.via = "received", !.consumed = d.consumed,
                           !.payload = d.payload, !.length = Len(d.payload)]

\* PingDispatch: the payload that came back goes to the Ping handler, as
\* dispatch(PING, payload, length) hands it over once get_handler has found
\* the handler; the callback returns r.
PingDispatch(r) ==
    /\ hc.via = "received"
    /\ hc.consumed > 0
    /\ LET h == handle(PING, hc.payload, hc.length, hc.abi, TRUE, r)
       IN hc' = [hc EXCEPT !.via = "scenario", !.ret = h.ret,
                           !.invoked = h.invoked, !.msg = h.msg,
                           !.written = h.written, !.fn = TRUE,
                           !.r = r]

----------------------------------------------------------------------------
(* Threads calling crc32::calculate while the table is built on first use *)

\* the number of entries of crc_table
TABLE_SIZE == 256

\* the ASCII bytes of "123456789"
KnownVector == <<49, 50, 51, 52, 53, 54, 55, 56, 57>>

\* the byte ranges the threads pass
CrcInputs == {<< >>, <<49>>, <<1, 2, 3, 4, 5>>, KnownVector}

\* crc_table as it stands in memory: a static array starts out zeroed, and
\* the entries below crc_table_written hold their final values
crc_table_now ==
    [i \in 0..(TABLE_SIZE - 1) |->
        IF i < crc_table_written THEN crc_table[i] ELSE Word(0, 0)]

NoCrcCall ==
    [pc |-> "idle", i |-> 0, data |-> << >>, k |-> 0, crc |-> Word(0, 0),
     partial |-> FALSE, result |-> Word(0, 0)]

CrcInit ==
    /\ crc_table_initialized = FALSE
    /\ crc_table_written = 0
    /\ crc_call = [t \in Threads |-> NoCrcCall]

\* no other thread is inside calculate
Alone(t) == \A u \in Threads \ {t} : crc_call[u].pc \in {"idle", "done"}

\* thread t calls calculate(data, Len(data)), which calls initialize_crc_table
CalcCall(t, data) ==
    /\ crc_call[t].pc = "idle"
    /\ crc_call' = [crc_call EXCEPT ![t] = [NoCrcCall EXCEPT !.pc = "check",
                                                           !.data = data]]
    /\ UNCHANGED <<crc_table_initialized, crc_table_written>>

\* initialize_crc_table: if (crc_table_initialized) return; otherwise the
\* loop over i starts. calculate goes on with crc = 0xFFFFFFFF.
InitCheck(t) ==
    /\ crc_call[t].pc = "check"
    /\ crc_call' = [crc_call EXCEPT ![t].pc =
                        IF crc_table_initialized THEN "loop" ELSE "fill",
                                    ![t].crc = Word(65535, 65535)]
    /\ UNCHANGED <<crc_table_initialized, crc_table_written>>

\* initialize_crc_table: crc_table[i] = crc for the next i. Every thread that
\* found the flag unset stores the same values, in the same order.
InitStore(t) ==
    /\ crc_call[t].pc = "fill"
    /\ crc_call[t].i < TABLE_SIZE
    /\ crc_table_written' = IF crc_call[t].i + 1 > crc_table_written
                            THEN crc_call[t].i + 1 ELSE crc_table_written
    /\ crc_call' = [crc_call EXCEPT ![t].i = @ + 1]
    /\ UNCHANGED crc_table_initialized

\* initialize_crc_table: crc_table_initialized = true after the loop, and the
\* return to calculate
InitDone(t) ==
    /\ crc_call[t].pc = "fill"
    /\ crc_call[t].i = TABLE_SIZE
    /\ crc_table_initialized' = TRUE
    /\ crc_call' = [crc_call EXCEPT ![t].pc = "loop"]
    /\ UNCHANGED crc_table_written

\* The flag and the table are plain objects written and read without
\* synchronization: nothing orders the store to crc_table_initialized after
\* the stores to crc_table for another thread, so the flag may be seen set
\* while entries are still to be written.
InitFlagEarly(t) ==
    /\ crc_call[t].pc = "fill"
    /\ crc_call[t].i < TABLE_SIZE
    /\ ~crc_table_initialized
    /\ crc_table_initialized' = TRUE
    /\ UNCHANGED <<crc_table_written, crc_call>>

\* calculate: one round of the loop over the bytes, reading the table in memory
CalcRound(t) ==
    LET c == crc_call[t]
        byte == c.data[c.k + 1]
        index == Xor(c.crc.lo % 256, byte)
    IN /\ c.pc = "loop"
       /\ c.k < Len(c.data)
       /\ crc_call' = [crc_call EXCEPT
              ![t].crc = Round(crc_table_now, c.crc, byte),
              ![t].k = c.k + 1,
              ![t].partial = c.partial \/ index >= crc_table_written]
       /\ UNCHANGED <<crc_table_initialized, crc_table_written>>

\* calculate: return crc ^ 0xFFFFFFFF
CalcReturn(t) ==
    LET c == crc_call[t] IN
    /\ c.pc = "loop"
    /\ c.k = Len(c.data)
    /\ crc_call' = [crc_call EXCEPT ![t].pc = "done",
                                    ![t].result = XorW(c.crc, Word(65535, 65535))]
    /\ UNCHANGED <<crc_table_initialized, crc_table_written>>

----------------------------------------------------------------------------
(* BitPackUtils (BitPackUtils.cpp) *)

RECURSIVE OrBits(_, _, _)
\* a | b for a, b below 2^n, n a power of two: the two halves, each on its own
OrBits(a, b, n) ==
    IF n = 1 THEN IF a + b > 0 THEN 1 ELSE 0
    ELSE LET m == 2 ^ (n \div 2) IN
         OrBits(a \div m, b \div m, n \div 2) * m + OrBits(a % m, b % m, n \div 2)

\* a | b for a, b in 0..65535
Or(a, b) == OrBits(a, b, 16)

\* x | y on words
OrW(x, y) == Word(Or(x.hi, y.hi), Or(x.lo, y.lo))

\* x >> n for n in 0..31
ShrN(x, n) ==
    IF n = 0 THEN x
    ELSE IF n <= 16 THEN ShrW(x, n)
    ELSE ShrW(Word(0, x.hi), n - 16)

\* the uint32_t b << n for a byte b and n in 0..31
ShlByte(b, n) ==
    IF n >= 16
    THEN Word((b * 2 ^ (n - 16)) % 65536, 0)
    ELSE Word(((b * 2 ^ n) \div 65536) % 65536, (b * 2 ^ n) % 65536)

\* value & ((1ULL << num_bits) - 1) for num_bits in 1..32
MaskBits(value, num_bits) ==
    IF num_bits >= 32 THEN value
    ELSE IF num_bits >= 16 THEN Word(value.hi % 2 ^ (num_bits - 16), value.lo)
    ELSE Word(0, value.lo % 2 ^ num_bits)

\* std::min
Min(a, b) == IF a < b THEN a ELSE b

RECURSIVE PackLoop(_, _, _, _, _, _)
\* pack_bits, the while loop: the buffer once the loop has ended
PackLoop(buffer, value, num_bits, byte_pos, bit_pos, bits_written) ==
    IF ~(bits_written < num_bits) THEN buffer
    ELSE LET bits_in_current_byte == 8 - bit_pos
             bits_to_write == Min(bits_in_current_byte, num_bits - bits_written)
             byte_mask == 2 ^ bits_to_write - 1
             bits_value == ShrN(value, bits_written).lo % (byte_mask + 1)
             stored == OrBits(buffer[byte_pos + 1], (bits_value * 2 ^ bit_pos) % 256, 8)
             wrap == bit_pos + bits_to_write >= 8
         IN PackLoop([buffer EXCEPT ![byte_pos + 1] = stored], value, num_bits,
                     IF wrap THEN byte_pos + 1 ELSE byte_pos,
                     IF wrap THEN 0 ELSE bit_pos + bits_to_write,
                     bits_written + bits_to_write)

\* A plausible slip: the position inside the first byte is taken as 0.
pack_bits_byte_aligned(buffer, offset, value, num_bits) ==
    IF num_bits = 0 \/ num_bits > 32 THEN [ret |-> offset, buffer |-> buffer]
    ELSE [ret |-> offset + num_bits,
          buffer |-> PackLoop(buffer, MaskBits(value, num_bits), num_bits,
                              offset \div 8, 0, 0)]

\* A plausible slip: the offset moves on although nothing was packed.
pack_bits_advancing(buffer, offset, value, num_bits) ==
    IF num_bits = 0 \/ num_bits > 32
    THEN [ret |-> offset + num_bits, buffer |-> buffer]
    ELSE [ret |-> offset + num_bits,
          buffer |-> PackLoop(buffer, MaskBits(value, num_bits), num_bits,
                              offset \div 8, offset % 8, 0)]

\* BitPackUtils::pack_bits: the offset returned and the buffer left behind
pack_bits(buffer, offset, value, num_bits) ==
    IF num_bits = 0 \/ num_bits > 32 THEN [ret |-> offset, buffer |-> buffer]
    ELSE [ret |-> offset + num_bits,
          buffer |-> PackLoop(buffer, MaskBits(value, num_bits), num_bits,
                              offset \div 8, offset % 8, 0)]

RECURSIVE UnpackLoop(_, _, _, _, _, _)
\* unpack_bits, the while loop: result once the loop has ended
UnpackLoop(buffer, num_bits, byte_pos, bit_pos, bits_read, result) ==
    IF ~(bits_read < num_bits) THEN result
    ELSE LET bits_in_current_byte == 8 - bit_pos
             bits_to_read == Min(bits_in_current_byte, num_bits - bits_read)
             byte_mask == 2 ^ bits_to_read - 1
             bits_value == (buffer[byte_pos + 1] \div 2 ^ bit_pos) % (byte_mask + 1)
             wrap == bit_pos + bits_to_read >= 8
         IN UnpackLoop(buffer, num_bits,
                       IF wrap THEN byte_pos + 1 ELSE byte_pos,
                       IF wrap THEN 0 ELSE bit_pos + bits_to_read,
                       bits_read + bits_to_read,
                       OrW(result, ShlByte(bits_value, bits_read)))

\* BitPackUtils::unpack_bits
unpack_bits(buffer, offset, num_bits) ==
    IF num_bits = 0 \/ num_bits > 32 THEN Word(0, 0)
    ELSE UnpackLoop(buffer, num_bits, offset \div 8, offset % 8, 0, Word(0, 0))

\* BitPackUtils::pack_bool
pack_bool(buffer, offset, value) ==
    pack_bits(buffer, offset, Word(0, IF value THEN 1 ELSE 0), 1)

\* BitPackUtils::unpack_bool
unpack_bool(buffer, offset) == unpack_bits(buffer, offset, 1) # Word(0, 0)

\* BitPackUtils::pack_uint8
pack_uint8(buffer, offset, value) == pack_bits(buffer, offset, Word(0, value), 8)

\* BitPackUtils::unpack_uint8
unpack_uint8(buffer, offset) == unpack_bits(buffer, offset, 8).lo % 256

\* BitPackUtils::pack_uint16
pack_uint16(buffer, offset, value) ==
    LET low == pack_bits(buffer, offset, Word(0, value % 256), 8) IN
    pack_bits(low.buffer, low.ret, Word(0, (value \div 256) % 256), 8)

\* BitPackUtils::unpack_uint16
unpack_uint16(buffer, offset) ==
    LET low == unpack_bits(buffer, offset, 8).lo
        high == unpack_bits(buffer, offset + 8, 8).lo
    IN Or(low, (high * 256) % 65536)

\* BitPackUtils::pack_uint32
pack_uint32(buffer, offset, value) ==
    LET p0 == pack_bits(buffer, offset, Word(0, value.lo % 256), 8)
        p1 == pack_bits(p0.buffer, p0.ret, Word(0, ShrN(value, 8).lo % 256), 8)
        p2 == pack_bits(p1.buffer, p1.ret, Word(0, ShrN(value, 16).lo % 256), 8)
    IN pack_bits(p2.buffer, p2.ret, Word(0, ShrN(value, 24).lo % 256), 8)

\* BitPackUtils::unpack_uint32
unpack_uint32(buffer, offset) ==
    LET b0 == unpack_bits(buffer, offset, 8)
        b1 == unpack_bits(buffer, offset + 8, 8)
        b2 == unpack_bits(buffer, offset + 16, 8)
        b3 == unpack_bits(buffer, offset + 24, 8)
    IN OrW(OrW(b0, ShlByte(b1.lo, 8)), OrW(ShlByte(b2.lo, 16), ShlByte(b3.lo, 24)))

----------------------------------------------------------------------------
(* A caller packing values one after the other and reading them back *)

\* bytes of the caller's buffer
BitBufSize == 5
\* values the caller packs into one buffer
MaxFields == 2

\* the values handed to pack_bits: all bits set, and 0xA5C39669
BitValues == {Word(65535, 65535), Word(42435, 38505)}

\* the numbers of bits handed to pack_bits and unpack_bits
NumBits == 0..33

\* the numbers of bits of a value packed behind another one
FollowBits == {13, 32, 33}

\* the offsets of the first value packed
StartOffsets == 0..7

\* no result: the call was a pack, or none was made
NoResult == "none"

BitInit ==
    /\ bit_buffer = [i \in 1..BitBufSize |-> 0]
    /\ bit_offset = 0
    /\ bit_fields = <<>>
    /\ bit_call = [op |-> "none"]

\* where the caller packs the next value: where the last one ended
NextOffsets == IF bit_fields = <<>> THEN StartOffsets ELSE {bit_offset}

\* the numbers of bits the caller hands to pack_bits next
NextBitCounts == IF bit_fields = <<>> THEN NumBits ELSE FollowBits

\* the caller packs the next value where the last one ended
Consecutive(offset) ==
    /\ Len(bit_fields) < MaxFields
    /\ offset \in NextOffsets

\* the state after a pack call that returned r
Packed(op, offset, num_bits, value, r) ==
    /\ bit_buffer' = r.buffer
    /\ bit_offset' = r.ret
    /\ bit_fields' = IF r.ret = offset THEN bit_fields
                     ELSE Append(bit_fields, [op |-> op, offset |-> offset,
                                              num_bits |-> num_bits, value |-> value])
    /\ bit_call' = [op |-> op, offset |-> offset, num_bits |-> num_bits,
                    value |-> value, before |-> bit_buffer, ret |-> r.ret,
                    result |-> NoResult]

\* offset = BitPackUtils::pack_bits(buffer, offset, value, num_bits)
PackBits(offset, value, num_bits) ==
    /\ Consecutive(offset)
    /\ num_bits \in NextBitCounts
    /\ num_bits \in 1..32 => offset + num_bits <= 8 * BitBufSize
    /\ Packed("bits", offset, num_bits, value,
              pack_bits(bit_buffer, offset, value, num_bits))

\* offset = BitPackUtils::pack_bool(buffer, offset, value)
PackBool(offset, value) ==
    /\ Consecutive(offset)
    /\ offset + 1 <= 8 * BitBufSize
    /\ Packed("bool", offset, 1, value, pack_bool(bit_buffer, offset, value))

\* offset = BitPackUtils::pack_uint8(buffer, offset, value)
PackUint8(offset, value) ==
    /\ Consecutive(offset)
    /\ offset + 8 <= 8 * BitBufSize
    /\ Packed("uint8", offset, 8, value, pack_uint8(bit_buffer, offset, value))

\* offset = BitPackUtils::pack_uint16(buffer, offset, value)
PackUint16(offset, value) ==
    /\ Consecutive(offset)
    /\ offset + 16 <= 8 * BitBufSize
    /\ Packed("uint16", offset, 16, value, pack_uint16(bit_buffer, offset, value))

\* offset = BitPackUtils::pack_uint32(buffer, offset, value)
PackUint32(offset, value) ==
    /\ Consecutive(offset)
    /\ offset + 32 <= 8 * BitBufSize
    /\ Packed("uint32", offset, 32, value, pack_uint32(bit_buffer, offset, value))

\* the unpack call that matches the pack call of field f
UnpackField(f) ==
    CASE f.op = "bits" -> unpack_bits(bit_buffer, f.offset, f.num_bits)
      [] f.op = "bool" -> unpack_bool(bit_buffer, f.offset)
      [] f.op = "uint8" -> unpack_uint8(bit_buffer, f.offset)
      [] f.op = "uint16" -> unpack_uint16(bit_buffer, f.offset)
      [] f.op = "uint32" -> unpack_uint32(bit_buffer, f.offset)

\* the caller reads the i-th value back
Unpack(i) ==
    /\ i \in 1..Len(bit_fields)
    /\ bit_call' = [op |-> "unpack", field |-> i, offset |-> bit_fields[i].offset,
                    num_bits |-> bit_fields[i].num_bits,
                    result |-> UnpackField(bit_fields[i])]
    /\ UNCHANGED <<bit_buffer, bit_offset, bit_fields>>

\* BitPackUtils::unpack_bits(buffer, offset, num_bits) with a number of bits
\* that pack_bits refuses
UnpackRefused(offset, num_bits) ==
    /\ num_bits = 0 \/ num_bits > 32
    /\ bit_call' = [op |-> "unpack_bits", field |-> 0, offset |-> offset,
                    num_bits |-> num_bits,
                    result |-> unpack_bits(bit_buffer, offset, num_bits)]
    /\ UNCHANGED <<bit_buffer, bit_offset, bit_fields>>

\* the values a caller packs over a value packed before: zero, and 0xA5C39669
RepackValues == {Word(0, 0), Word(42435, 38505)}

\* The caller packs a new value over the i-th one, into the buffer as it is:
\* pack_bits(buffer, offset, value, num_bits) with the offset and the number
\* of bits of that value.
Repack(i, value) ==
    /\ i \in 1..Len(bit_fields)
    /\ bit_fields[i].op = "bits"
    /\ LET f == bit_fields[i]
           r == pack_bits(bit_buffer, f.offset, value, f.num_bits)
       IN /\ bit_buffer' = r.buffer
          /\ bit_fields' = [bit_fields EXCEPT ![i].value = value]
          /\ bit_call' = [op |-> "repack", field |-> i, offset |-> f.offset,
                          num_bits |-> f.num_bits, value |-> value,
                          before |-> bit_buffer, ret |-> r.ret,
                          result |-> NoResult]
    /\ UNCHANGED bit_offset

----------------------------------------------------------------------------
(* EndianUtils (EndianUtils.h) *)

\* EndianUtils::IS_LITTLE_ENDIAN
IS_LITTLE_ENDIAN == TRUE

\* EndianUtils::IS_BIG_ENDIAN
IS_BIG_ENDIAN == FALSE

\* a uint64_t of two words
Quad(high, low) == [high |-> high, low |-> low]

\* (value >> n) & 0xFF for a uint64_t and n in 0..56, a multiple of 8
ByteQ(value, n) ==
    IF n < 32 THEN ShrN(value.low, n).lo % 256
    ELSE ShrN(value.high, n - 32).lo % 256

\* the uint64_t b << n for a byte b and n in 0..56, a multiple of 8
ShlQ(b, n) ==
    IF n >= 32 THEN Quad(ShlByte(b, n - 32), Word(0, 0))
    ELSE Quad(Word(0, 0), ShlByte(b, n))

\* x | y on uint64_t
OrQ(x, y) == Quad(OrW(x.high, y.high), OrW(x.low, y.low))

\* EndianUtils::swap_uint16
swap_uint16(value) ==
    Or(((value % 256) * 256), (value \div 256) % 256) % 65536

\* A plausible slip: the bytes are rotated by one place instead of reversed.
swap_uint32_rotated(value) ==
    OrW(ShlByte(value.lo % 256, 24), ShrN(value, 8))

\* EndianUtils::swap_uint32
swap_uint32(value) ==
    OrW(OrW(ShlByte(value.lo % 256, 24),
            ShlByte(ShrN(value, 8).lo % 256, 16)),
        OrW(ShlByte(ShrN(value, 16).lo % 256, 8),
            Word(0, ShrN(value, 24).lo % 256)))

\* EndianUtils::swap_uint64
swap_uint64(value) ==
    OrQ(OrQ(OrQ(ShlQ(ByteQ(value, 0), 56), ShlQ(ByteQ(value, 8), 48)),
            OrQ(ShlQ(ByteQ(value, 16), 40), ShlQ(ByteQ(value, 24), 32))),
        OrQ(OrQ(ShlQ(ByteQ(value, 32), 24), ShlQ(ByteQ(value, 40), 16)),
            OrQ(ShlQ(ByteQ(value, 48), 8), ShlQ(ByteQ(value, 56), 0))))

\* swap_uint16 / swap_uint32 / swap_uint64, by the width of the argument
swap(width, value) ==
    CASE width = 16 -> swap_uint16(value)
      [] width = 32 -> swap_uint32(value)
      [] width = 64 -> swap_uint64(value)

\* EndianUtils::to_little_endian, the three overloads
to_little_endian(width, value) ==
    IF IS_LITTLE_ENDIAN THEN value ELSE swap(width, value)

\* EndianUtils::from_little_endian, the three overloads
from_little_endian(width, value) ==
    IF IS_LITTLE_ENDIAN THEN value ELSE swap(width, value)

\* EndianUtils::to_big_endian, the three overloads
to_big_endian(width, value) ==
    IF IS_BIG_ENDIAN THEN value ELSE swap(width, value)

\* EndianUtils::from_big_endian, the three overloads
from_big_endian(width, value) ==
    IF IS_BIG_ENDIAN THEN value ELSE swap(width, value)

----------------------------------------------------------------------------
(* A caller converting values with EndianUtils *)

\* the functions of EndianUtils that convert a value
EndianFns == {"swap", "to_little_endian", "from_little_endian",
              "to_big_endian", "from_big_endian"}

\* the values handed to EndianUtils, by width: 0x1234 and 0x12345678 are the
\* tests' values
EndianValues(width) ==
    CASE width = 16 -> {4660, 255, 43981, 32768}
      [] width = 32 -> {Word(4660, 22136), Word(0, 255), Word(57005, 48879),
                        Word(32768, 0)}
      [] width = 64 -> {Quad(Word(258, 772), Word(1286, 1800)),
                        Quad(Word(0, 0), Word(0, 255)),
                        Quad(Word(4660, 22136), Word(39612, 57072)),
                        Quad(Word(32768, 0), Word(0, 0))}

\* the value fn returns
EndianApply(fn, width, value) ==
    CASE fn = "swap" -> swap(width, value)
      [] fn = "to_little_endian" -> to_little_endian(width, value)
      [] fn = "from_little_endian" -> from_little_endian(width, value)
      [] fn = "to_big_endian" -> to_big_endian(width, value)
      [] fn = "from_big_endian" -> from_big_endian(width, value)

EndInit == en = [fn |-> "none"]

\* result = EndianUtils::fn(value)
EndianCall(fn, width, value) ==
    en' = [fn |-> fn, width |-> width, value |-> value,
           result |-> EndianApply(fn, width, value),
           before |-> "none", original |-> value]

\* back = EndianUtils::fn(result), result being what the last call returned
EndianCallBack(fn) ==
    /\ en.fn # "none"
    /\ en' = [fn |-> fn, width |-> en.width, value |-> en.result,
              result |-> EndianApply(fn, en.width, en.result),
              before |-> en.fn, original |-> en.value]

----------------------------------------------------------------------------
(* LockFreeQueue<int, Capacity> (LockFreeQueue.h) and MutexQueue (MutexQueue.h) *)
(* The atomic positions are read and written one access at a time, in one   *)
(* order all threads agree on; the slots of m_buffer are plain memory.      *)

\* Capacity is 2 ^ LogCapacity: the static_assert wants a power of 2
LogCapacity == 1
\* calls of try_enqueue and try_dequeue started by the threads
MaxQueueOps == 6
\* calls made by the single thread that drives both queues
MaxSeqOps == 10

\* template parameter Capacity of LockFreeQueue
Capacity == 2 ^ LogCapacity

\* LockFreeQueue::MASK
MASK == Capacity - 1

\* x & MASK, MASK being 2 ^ LogCapacity - 1
AndMASK(x) == x % (MASK + 1)

\* T(): what make_unique<T[]> leaves in every slot
DefaultValue == 0

\* the call has not returned
NoReturn == "none"

\* a thread outside try_enqueue and try_dequeue
IdleCall == [pc |-> "idle", op |-> "none", value |-> DefaultValue, pos |-> 0,
             ret |-> NoReturn]

QueueInit ==
    /\ q_buffer = [i \in 0..(Capacity - 1) |-> DefaultValue]
    /\ m_enqueue_pos = 0
    /\ m_dequeue_pos = 0
    /\ q_call = [t \in Threads |-> IdleCall]
    /\ q_started = 0
    /\ q_enqueued = {}
    /\ q_dequeued = <<>>
    /\ q_drain = [started |-> FALSE, size |-> 0, dequeued |-> 0, finished |-> {}]
    /\ m_queue = <<>>
    /\ mq_call = [op |-> "none", ret |-> NoReturn, value |-> DefaultValue]

\* LockFreeQueue::is_empty
is_empty == AndMASK(m_enqueue_pos) = AndMASK(m_dequeue_pos)

\* LockFreeQueue::approximate_size
approximate_size == m_enqueue_pos - m_dequeue_pos

\* no thread is inside a call
AllIdle == \A t \in Threads : q_call[t].pc = "idle"

\* try_enqueue(value), line 52: pos = m_enqueue_pos.load()
EnqueueCall(t, value) ==
    /\ q_call[t].pc = "idle"
    /\ q_call' = [q_call EXCEPT ![t] = [pc |-> "load", op |-> "try_enqueue",
                                        value |-> value, pos |-> m_enqueue_pos,
                                        ret |-> NoReturn]]
    /\ UNCHANGED <<q_buffer, m_enqueue_pos, m_dequeue_pos, q_enqueued, q_dequeued>>

\* A plausible slip: the check for a full queue is left out.
EnqueueLoad_unchecked(t) ==
    /\ q_call[t].pc = "load"
    /\ q_call[t].op = "try_enqueue"
    /\ q_call' = [q_call EXCEPT ![t].pc = "cas"]
    /\ UNCHANGED <<q_buffer, m_enqueue_pos, m_dequeue_pos, q_enqueued, q_dequeued>>

\* try_enqueue, lines 55-62: dequeue_pos = m_dequeue_pos.load(); the check
\* for a full queue
EnqueueLoad(t) ==
    /\ q_call[t].pc = "load"
    /\ q_call[t].op = "try_enqueue"
    /\ LET next_pos == q_call[t].pos + 1 IN
       IF AndMASK(next_pos) = AndMASK(m_dequeue_pos)
       THEN q_call' = [q_call EXCEPT ![t].pc = "idle", ![t].pos = 0,
                                     ![t].ret = FALSE]
       ELSE q_call' = [q_call EXCEPT ![t].pc = "cas"]
    /\ UNCHANGED <<q_buffer, m_enqueue_pos, m_dequeue_pos, q_enqueued, q_dequeued>>

\* try_enqueue, lines 66-68: m_enqueue_pos.compare_exchange_weak(pos, next_pos),
\* which may fail although the value compares equal
EnqueueCas(t) ==
    /\ q_call[t].pc = "cas"
    /\ q_call[t].op = "try_enqueue"
    /\ \/ /\ m_enqueue_pos = q_call[t].pos
          /\ m_enqueue_pos' = q_call[t].pos + 1
          /\ q_call' = [q_call EXCEPT ![t].pc = "access"]
       \/ /\ m_enqueue_pos' = m_enqueue_pos
          /\ q_call' = [q_call EXCEPT ![t].pc = "load", ![t].pos = m_enqueue_pos]
    /\ UNCHANGED <<q_buffer, m_dequeue_pos, q_enqueued, q_dequeued>>

\* try_enqueue, lines 71-73: m_buffer[pos & MASK] = value; return true
EnqueueWrite(t) ==
    /\ q_call[t].pc = "access"
    /\ q_call[t].op = "try_enqueue"
    /\ q_buffer' = [q_buffer EXCEPT ![AndMASK(q_call[t].pos)] = q_call[t].value]
    /\ q_enqueued' = q_enqueued \cup {q_call[t].value}
    /\ q_call' = [q_call EXCEPT ![t].pc = "idle", ![t].pos = 0, ![t].ret = TRUE]
    /\ UNCHANGED <<m_enqueue_pos, m_dequeue_pos, q_dequeued>>

\* try_dequeue(value), line 85: pos = m_dequeue_pos.load()
DequeueCall(t) ==
    /\ q_call[t].pc = "idle"
    /\ q_call' = [q_call EXCEPT ![t] = [pc |-> "load", op |-> "try_dequeue",
                                        value |-> DefaultValue,
                                        pos |-> m_dequeue_pos, ret |-> NoReturn]]
    /\ UNCHANGED <<q_buffer, m_enqueue_pos, m_dequeue_pos, q_enqueued, q_dequeued>>

\* try_dequeue, lines 88-92: enqueue_pos = m_enqueue_pos.load(); the check
\* for an empty queue
DequeueLoad(t) ==
    /\ q_call[t].pc = "load"
    /\ q_call[t].op = "try_dequeue"
    /\ IF AndMASK(q_call[t].pos) = AndMASK(m_enqueue_pos)
       THEN /\ q_call' = [q_call EXCEPT ![t].pc = "idle", ![t].pos = 0,
                                     ![t].ret = FALSE]
            /\ q_drain' = IF q_drain.started
                          THEN [q_drain EXCEPT !.finished = @ \cup {t}]
                          ELSE q_drain
       ELSE /\ q_call' = [q_call EXCEPT ![t].pc = "cas"]
            /\ q_drain' = q_drain
    /\ UNCHANGED <<q_buffer, m_enqueue_pos, m_dequeue_pos, q_enqueued, q_dequeued>>

\* try_dequeue, lines 96-98: m_dequeue_pos.compare_exchange_weak(pos, pos + 1),
\* which may fail although the value compares equal
DequeueCas(t) ==
    /\ q_call[t].pc = "cas"
    /\ q_call[t].op = "try_dequeue"
    /\ \/ /\ m_dequeue_pos = q_call[t].pos
          /\ m_dequeue_pos' = q_call[t].pos + 1
          /\ q_call' = [q_call EXCEPT ![t].pc = "access"]
       \/ /\ m_dequeue_pos' = m_dequeue_pos
          /\ q_call' = [q_call EXCEPT ![t].pc = "load", ![t].pos = m_dequeue_pos]
    /\ UNCHANGED <<q_buffer, m_enqueue_pos, q_enqueued, q_dequeued>>

\* try_dequeue, lines 101-103: value = std::move(m_buffer[pos & MASK]);
\* return true
DequeueRead(t) ==
    /\ q_call[t].pc = "access"
    /\ q_call[t].op = "try_dequeue"
    /\ q_call' = [q_call EXCEPT ![t].pc = "idle", ![t].pos = 0, ![t].ret = TRUE,
                                ![t].value = q_buffer[AndMASK(q_call[t].pos)]]
    /\ q_dequeued' = Append(q_dequeued, q_buffer[AndMASK(q_call[t].pos)])
    /\ UNCHANGED <<q_buffer, m_enqueue_pos, m_dequeue_pos, q_enqueued>>

\* A plausible slip: the MutexQueue has as many slots as the ring.
MutexCapacity_ring == Capacity

\* template parameter Capacity of the MutexQueue the LockFreeQueue is
\* compared with
MutexCapacity == Capacity - 1

\* MutexQueue::try_enqueue: the value returned and the queue left behind
MutexQueue_try_enqueue(queue, value) ==
    IF Len(queue) >= MutexCapacity
    THEN [ret |-> FALSE, value |-> DefaultValue, queue |-> queue]
    ELSE [ret |-> TRUE, value |-> DefaultValue, queue |-> Append(queue, value)]

\* MutexQueue::try_dequeue: the value returned, the value handed out and the
\* queue left behind
MutexQueue_try_dequeue(queue) ==
    IF queue = <<>>
    THEN [ret |-> FALSE, value |-> DefaultValue, queue |-> queue]
    ELSE [ret |-> TRUE, value |-> Head(queue), queue |-> Tail(queue)]

----------------------------------------------------------------------------
(* Threads calling the LockFreeQueue *)

\* the variables only the callers of the queue write
callerVars == <<q_started, q_drain, m_queue, mq_call>>

\* a producer: queue.try_enqueue(value), the values being 1, 2, ...
ThreadEnqueue(t) ==
    /\ ~q_drain.started
    /\ q_started < MaxQueueOps
    /\ EnqueueCall(t, q_started + 1)
    /\ q_started' = q_started + 1
    /\ UNCHANGED <<q_drain, m_queue, mq_call>>

\* a consumer: queue.try_dequeue(value); a consumer that drains the queue
\* calls it until it returns false
ThreadDequeue(t) ==
    /\ IF q_drain.started
       THEN t \notin q_drain.finished /\ q_started' = q_started
       ELSE q_started < MaxQueueOps /\ q_started' = q_started + 1
    /\ DequeueCall(t)
    /\ UNCHANGED <<q_drain, m_queue, mq_call>>

\* the producers have been joined; from now on every thread is a consumer
\* that drains the queue
StartDrain ==
    /\ ~q_drain.started
    /\ AllIdle
    /\ q_drain' = [started |-> TRUE, size |-> approximate_size,
                   dequeued |-> Len(q_dequeued), finished |-> {}]
    /\ UNCHANGED <<q_buffer, m_enqueue_pos, m_dequeue_pos, q_call, q_started,
                   q_enqueued, q_dequeued, m_queue, mq_call>>

\* one thread makes the same call on the LockFreeQueue and on the MutexQueue
SeqEnqueue(t) ==
    /\ q_started < MaxSeqOps
    /\ EnqueueCall(t, q_started + 1)
    /\ q_started' = q_started + 1
    /\ LET r == MutexQueue_try_enqueue(m_queue, q_started + 1) IN
       /\ m_queue' = r.queue
       /\ mq_call' = [op |-> "try_enqueue", ret |-> r.ret, value |-> r.value]
    /\ UNCHANGED q_drain

\* one thread makes the same call on the LockFreeQueue and on the MutexQueue
SeqDequeue(t) ==
    /\ q_started < MaxSeqOps
    /\ DequeueCall(t)
    /\ q_started' = q_started + 1
    /\ LET r == MutexQueue_try_dequeue(m_queue) IN
       /\ m_queue' = r.queue
       /\ mq_call' = [op |-> "try_dequeue", ret |-> r.ret, value |-> r.value]
    /\ UNCHANGED q_drain

----------------------------------------------------------------------------
(* ThreadPool (ThreadPool.h, ThreadPool.cpp) *)
(* What a thread does while it holds m_queue_mutex is one step.             *)

\* worker threads of the pool: ThreadPool(numThreads)
NumWorkers == 2
\* tasks handed to submit
MaxTasks == 2

Workers == 1..NumWorkers

Tasks == 1..MaxTasks

\* the pool constructed with ThreadPool(numThreads), and the pool
\* move-constructed from it
Pools == {"a", "b"}

\* the object whose workerLoop() the worker runs: the lambda of the
\* constructor captures this
This(w) == "a"

\* no task
NoTask == 0

PoolInit ==
    /\ pools = {"a"}
    /\ m_workers = [p \in Pools |-> IF p = "a" THEN Workers ELSE {}]
    /\ m_task_queue = [p \in Pools |-> <<>>]
    /\ m_shutdown = [p \in Pools |-> FALSE]
    /\ m_condition_variable = [p \in Pools |-> {}]
    /\ worker = [w \in Workers |-> [pc |-> "start", task |-> NoTask]]
    /\ sub = [t \in Threads |-> [pc |-> "idle", pool |-> "a", task |-> NoTask,
                                 result |-> "none"]]
    /\ sd = [pc |-> "idle", pool |-> "a"]
    /\ executed = [k \in Tasks |-> 0]
    /\ submitted = {}
    /\ next_task = 1

\* ThreadPool::isShutdown
isShutdown(p) == m_shutdown[p]

\* ThreadPool::getNumThreads
getNumThreads(p) == Cardinality(m_workers[p])

\* the workers of ws leave wait(): they will lock the mutex and test the
\* predicate again
Woken(ws) == [w \in Workers |-> IF w \in ws THEN [worker[w] EXCEPT !.pc = "start"]
                                ELSE worker[w]]

\* workerLoop, lines 59-79: under the lock, wait until there is a task or
\* the pool is shut down; leave the loop, or take the task at the front
WorkerLocked(w) ==
    LET this == This(w) IN
    /\ worker[w].pc = "start"
    /\ IF m_task_queue[this] = <<>> /\ ~m_shutdown[this]
       THEN /\ worker' = [worker EXCEPT ![w].pc = "wait"]
            /\ m_condition_variable' =
                   [m_condition_variable EXCEPT ![this] = @ \cup {w}]
            /\ UNCHANGED m_task_queue
       ELSE IF m_shutdown[this] /\ m_task_queue[this] = <<>>
       THEN /\ worker' = [worker EXCEPT ![w].pc = "exited"]
            /\ UNCHANGED <<m_condition_variable, m_task_queue>>
       ELSE /\ worker' = [worker EXCEPT ![w] = [pc |-> "run",
                                                task |-> Head(m_task_queue[this])]]
            /\ m_task_queue' = [m_task_queue EXCEPT ![this] = Tail(@)]
            /\ UNCHANGED m_condition_variable
    /\ UNCHANGED <<pools, m_workers, m_shutdown, sub, sd, executed, submitted,
                   next_task>>

\* workerLoop, lines 82-91: task()
WorkerRun(w) ==
    /\ worker[w].pc = "run"
    /\ executed' = [executed EXCEPT ![worker[w].task] = @ + 1]
    /\ worker' = [worker EXCEPT ![w] = [pc |-> "start", task |-> NoTask]]
    /\ UNCHANGED <<pools, m_workers, m_task_queue, m_shutdown,
                   m_condition_variable, sub, sd, submitted, next_task>>

\* condition_variable::wait returns although nobody notified
SpuriousWakeup(w) ==
    /\ worker[w].pc = "wait"
    /\ worker' = Woken({w})
    /\ m_condition_variable' = [p \in Pools |-> m_condition_variable[p] \ {w}]
    /\ UNCHANGED <<pools, m_workers, m_task_queue, m_shutdown, sub, sd, executed,
                   submitted, next_task>>

\* A plausible slip: submit does not look at m_shutdown.
SubmitLocked_unchecked(t, p) ==
    /\ sub[t].pc = "idle"
    /\ p \in pools
    /\ next_task <= MaxTasks
    /\ next_task' = next_task + 1
    /\ m_task_queue' = [m_task_queue EXCEPT ![p] = Append(@, next_task)]
    /\ submitted' = submitted \cup {<<next_task, p>>}
    /\ sub' = [sub EXCEPT ![t] = [pc |-> "notify", pool |-> p,
                                  task |-> next_task, result |-> "none"]]
    /\ UNCHANGED <<pools, m_workers, m_shutdown, m_condition_variable, worker, sd,
                   executed>>

\* submit, lines 50-66: under the lock, throw if the pool is shut down,
\* push the task otherwise
SubmitLocked(t, p) ==
    /\ sub[t].pc = "idle"
    /\ p \in pools
    /\ next_task <= MaxTasks
    /\ next_task' = next_task + 1
    /\ IF m_shutdown[p]
       THEN /\ sub' = [sub EXCEPT ![t] = [pc |-> "idle", pool |-> p,
                                          task |-> next_task, result |-> "threw"]]
            /\ UNCHANGED <<m_task_queue, submitted>>
       ELSE /\ m_task_queue' = [m_task_queue EXCEPT ![p] = Append(@, next_task)]
            /\ submitted' = submitted \cup {<<next_task, p>>}
            /\ sub' = [sub EXCEPT ![t] = [pc |-> "notify", pool |-> p,
                                          task |-> next_task, result |-> "none"]]
    /\ UNCHANGED <<pools, m_workers, m_shutdown, m_condition_variable, worker, sd,
                   executed>>

\* submit, lines 69-71: m_condition_variable.notify_one(); return result
SubmitNotify(t) ==
    /\ sub[t].pc = "notify"
    /\ sub' = [sub EXCEPT ![t].pc = "idle", ![t].result = "returned"]
    /\ LET cv == m_condition_variable[sub[t].pool] IN
       IF cv = {}
       THEN UNCHANGED <<worker, m_condition_variable>>
       ELSE \E w \in cv :
                /\ worker' = Woken({w})
                /\ m_condition_variable' =
                       [m_condition_variable EXCEPT ![sub[t].pool] = @ \ {w}]
    /\ UNCHANGED <<pools, m_workers, m_task_queue, m_shutdown, sd, executed,
                   submitted, next_task>>

\* shutdown, lines 97-100: under the lock, m_shutdown.store(true)
ShutdownLocked(p) ==
    /\ sd.pc \in {"idle", "returned"}
    /\ p \in pools
    /\ ~m_shutdown[p]
    /\ m_shutdown' = [m_shutdown EXCEPT ![p] = TRUE]
    /\ sd' = [pc |-> "notify", pool |-> p]
    /\ UNCHANGED <<pools, m_workers, m_task_queue, m_condition_variable, worker,
                   sub, executed, submitted, next_task>>

\* A plausible slip: shutdown does not notify the workers.
ShutdownNotify_none ==
    /\ sd.pc = "notify"
    /\ sd' = [sd EXCEPT !.pc = "join"]
    /\ UNCHANGED <<pools, m_workers, m_task_queue, m_shutdown,
                   m_condition_variable, worker, sub, executed, submitted,
                   next_task>>

\* shutdown, line 103: m_condition_variable.notify_all()
ShutdownNotify ==
    /\ sd.pc = "notify"
    /\ sd' = [sd EXCEPT !.pc = "join"]
    /\ worker' = Woken(m_condition_variable[sd.pool])
    /\ m_condition_variable' = [m_condition_variable EXCEPT ![sd.pool] = {}]
    /\ UNCHANGED <<pools, m_workers, m_task_queue, m_shutdown, sub, executed,
                   submitted, next_task>>

\* shutdown, lines 106-110: worker.join() for every worker of m_workers
\* returns once that worker has left workerLoop
ShutdownJoin ==
    /\ sd.pc = "join"
    /\ \A w \in m_workers[sd.pool] : worker[w].pc = "exited"
    /\ sd' = [sd EXCEPT !.pc = "returned"]
    /\ UNCHANGED <<pools, m_workers, m_task_queue, m_shutdown,
                   m_condition_variable, worker, sub, executed, submitted,
                   next_task>>

\* ThreadPool b = std::move(a), lines 31-37
MoveConstruct ==
    /\ pools = {"a"}
    /\ sd.pc = "idle"
    /\ pools' = {"a", "b"}
    /\ m_workers' = [m_workers EXCEPT !["b"] = m_workers["a"], !["a"] = {}]
    /\ m_task_queue' = [m_task_queue EXCEPT !["b"] = m_task_queue["a"],
                                            !["a"] = <<>>]
    /\ m_shutdown' = [m_shutdown EXCEPT !["b"] = m_shutdown["a"], !["a"] = TRUE]
    /\ UNCHANGED <<m_condition_variable, worker, sub, sd, executed, submitted,
                   next_task>>

----------------------------------------------------------------------------
(* NetworkBuffer with its read position (NetworkBuffer.h) *)
(* data points to length bytes, so length is at most the size of an object  *)
(* and m_write_pos + length, m_read_pos + length do not wrap around.        *)

\* calls of the NetworkBuffer in one run
MaxNetOps == 4

\* nothing was read
NoValue == <<>>

NetInit ==
    /\ m_read_pos = 0
    /\ nb_call = [op |-> "none"]
    /\ nb_ops = 0

\* NetworkBuffer::write_uint32: the four bytes, least significant first
write_uint32(nb, value) == write(nb, WordBytes(value))

\* A plausible slip: read checks the length against the size of the buffer.
read_to_size(buffer, write_pos, read_pos, length) ==
    IF read_pos + length > Len(buffer)
    THEN [ok |-> FALSE, data |-> NoValue, read_pos |-> read_pos]
    ELSE [ok |-> TRUE,
          data |-> [i \in 1..length |-> buffer[read_pos + i]],
          read_pos |-> read_pos + length]

\* NetworkBuffer::read(data, length): the value returned, the bytes copied
\* to data and the read position left behind
read(buffer, write_pos, read_pos, length) ==
    IF read_pos + length > write_pos
    THEN [ok |-> FALSE, data |-> NoValue, read_pos |-> read_pos]
    ELSE [ok |-> TRUE,
          data |-> [i \in 1..length |-> buffer[read_pos + i]],
          read_pos |-> read_pos + length]

\* NetworkBuffer::read_byte
read_byte(buffer, write_pos, read_pos) ==
    LET r == read(buffer, write_pos, read_pos, 1) IN
    [ok |-> r.ok, value |-> IF r.ok THEN r.data[1] ELSE NoValue,
     read_pos |-> r.read_pos]

\* NetworkBuffer::read_uint16
read_uint16(buffer, write_pos, read_pos) ==
    LET r == read(buffer, write_pos, read_pos, 2) IN
    [ok |-> r.ok,
     value |-> IF r.ok THEN Or(r.data[1], (r.data[2] * 256) % 65536) ELSE NoValue,
     read_pos |-> r.read_pos]

\* NetworkBuffer::read_uint32
read_uint32(buffer, write_pos, read_pos) ==
    LET r == read(buffer, write_pos, read_pos, 4) IN
    [ok |-> r.ok,
     value |-> IF r.ok
               THEN OrW(OrW(Word(0, r.data[1]), ShlByte(r.data[2], 8)),
                        OrW(ShlByte(r.data[3], 16), ShlByte(r.data[4], 24)))
               ELSE NoValue,
     read_pos |-> r.read_pos]

\* NetworkBuffer::available_read
available_read == m_write_pos - m_read_pos

\* NetworkBuffer::available_write
available_write == Len(m_buffer) - m_write_pos

\* the bytes a caller passes to write: length bytes 7, 14, 21, ...
Pattern(length) == [i \in 1..length |-> (7 * i) % 256]

\* the lengths passed to write: nothing, less than the space left, more than
\* the space left, more than the buffer holds
WriteLengths == {0, 1, 3, BufSize - 2, BufSize + 1}

\* the lengths passed to read
ReadLengths == {0, 1, 3, BufSize}

\* the call that is made now, with the positions it finds
NetCall(op, length, ok, value) ==
    /\ nb_ops < MaxNetOps
    /\ nb_ops' = nb_ops + 1
    /\ nb_call' = [op |-> op, length |-> length, ok |-> ok, value |-> value,
                   write_pos |-> m_write_pos, read_pos |-> m_read_pos]
    /\ UNCHANGED <<ser, rx_flip, rx_len, de>>

\* the state a write call leaves behind
Wrote(op, length, w) ==
    /\ NetCall(op, length, w.ok, NoValue)
    /\ m_buffer' = w.nb.buf
    /\ m_write_pos' = w.nb.wpos
    /\ UNCHANGED m_read_pos

\* buffer.write(data, length)
NetWrite(length) ==
    Wrote("write", length,
          write([buf |-> m_buffer, wpos |-> m_write_pos], Pattern(length)))

\* buffer.write_byte(0xFF)
NetWriteByte ==
    Wrote("write_byte", 1,
          write_byte([buf |-> m_buffer, wpos |-> m_write_pos], 255))

\* buffer.write_uint16(0x1234)
NetWriteUint16 ==
    Wrote("write_uint16", 2,
          write_uint16([buf |-> m_buffer, wpos |-> m_write_pos], 4660))

\* buffer.write_uint32(0x12345678)
NetWriteUint32 ==
    Wrote("write_uint32", 4,
          write_uint32([buf |-> m_buffer, wpos |-> m_write_pos],
                       Word(4660, 22136)))

\* buffer.read(data, length)
NetRead(length) ==
    LET r == read(m_buffer, m_write_pos, m_read_pos, length) IN
    /\ NetCall("read", length, r.ok, r.data)
    /\ m_read_pos' = r.read_pos
    /\ UNCHANGED <<m_buffer, m_write_pos>>

\* buffer.read_byte(value)
NetReadByte ==
    LET r == read_byte(m_buffer, m_write_pos, m_read_pos) IN
    /\ NetCall("read_byte", 1, r.ok, r.value)
    /\ m_read_pos' = r.read_pos
    /\ UNCHANGED <<m_buffer, m_write_pos>>

\* buffer.read_uint16(value)
NetReadUint16 ==
    LET r == read_uint16(m_buffer, m_write_pos, m_read_pos) IN
    /\ NetCall("read_uint16", 2, r.ok, r.value)
    /\ m_read_pos' = r.read_pos
    /\ UNCHANGED <<m_buffer, m_write_pos>>

\* buffer.read_uint32(value)
NetReadUint32 ==
    LET r == read_uint32(m_buffer, m_write_pos, m_read_pos) IN
    /\ NetCall("read_uint32", 4, r.ok, r.value)
    /\ m_read_pos' = r.read_pos
    /\ UNCHANGED <<m_buffer, m_write_pos>>

\* buffer.reset()
NetReset ==
    /\ NetCall("reset", 0, TRUE, NoValue)
    /\ m_write_pos' = 0
    /\ m_read_pos' = 0
    /\ UNCHANGED m_buffer

\* buffer.reset_read()
NetResetRead ==
    /\ NetCall("reset_read", 0, TRUE, NoValue)
    /\ m_read_pos' = 0
    /\ UNCHANGED <<m_buffer, m_write_pos>>

\* buffer.clear(): BufferWrapper::clear zeroes the bytes, then reset()
NetClear ==
    /\ NetCall("clear", 0, TRUE, NoValue)
    /\ m_buffer' = [i \in 1..Len(m_buffer) |-> 0]
    /\ m_write_pos' = 0
    /\ m_read_pos' = 0

----------------------------------------------------------------------------
(* ConnectionHandler (ConnectionHandler.h, ConnectionHandler.cpp) *)

\* size of the write buffer of the model's connection (BUFFER_SIZE)
ConnBufSize == 3

\* calls of the ConnectionHandler in one run
MaxConnOps == 4

\* the null pointer passed as data
NullData == [null |-> TRUE, bytes |-> <<>>]

\* send() was not called
NotCalled == [kind |-> "none"]

ConnInit ==
    /\ conn = [m_is_active |-> TRUE,
               m_write_buffer |-> [i \in 1..ConnBufSize |-> 0],
               m_write_pos |-> 0,
               m_bytes_sent |-> 0]
    /\ socket_out = <<>>
    /\ ch_call = [op |-> "none"]
    /\ ch_ops = 0

\* what send(socket, buffer, n) can do: take 1..n of the bytes, fail with
\* WSAEWOULDBLOCK, or fail with another error
SendOutcomes(n) ==
    {[kind |-> "sent", bytes_sent |-> k] : k \in 1..n}
        \cup {[kind |-> "wouldblock"], [kind |-> "error"]}

\* ConnectionHandler::handle_write_event, given what send() does when it is
\* called: the value returned, the handler afterwards and the bytes taken
handle_write_event(c, outcome) ==
    IF ~c.m_is_active \/ c.m_write_pos = 0
    THEN [ret |-> FALSE, conn |-> c, taken |-> <<>>, send |-> NotCalled]
    ELSE IF outcome.kind = "error"
    THEN [ret |-> FALSE, conn |-> [c EXCEPT !.m_is_active = FALSE],
          taken |-> <<>>, send |-> outcome]
    ELSE IF outcome.kind = "wouldblock"
    THEN [ret |-> FALSE, conn |-> c, taken |-> <<>>, send |-> outcome]
    ELSE LET bytes_sent == outcome.bytes_sent
             moved == [i \in 1..ConnBufSize |->
                          IF bytes_sent < c.m_write_pos
                             /\ i <= c.m_write_pos - bytes_sent
                          THEN c.m_write_buffer[i + bytes_sent]
                          ELSE c.m_write_buffer[i]]
         IN [ret |-> c.m_write_pos - bytes_sent > 0,
             conn |-> [c EXCEPT !.m_bytes_sent = @ + bytes_sent,
                                !.m_write_buffer = moved,
                                !.m_write_pos = @ - bytes_sent],
             taken |-> [i \in 1..bytes_sent |-> c.m_write_buffer[i]],
             send |-> outcome]

\* the handler after the memcpy of send_data
Copied(c, data) ==
    [c EXCEPT !.m_write_buffer =
                  [i \in 1..ConnBufSize |->
                      IF i > c.m_write_pos /\ i <= c.m_write_pos + Len(data)
                      THEN data[i - c.m_write_pos] ELSE @[i]],
              !.m_write_pos = @ + Len(data)]

\* ConnectionHandler::send_data
send_data(c, data, outcome) ==
    IF ~c.m_is_active \/ data.null \/ Len(data.bytes) = 0
    THEN [ret |-> FALSE, conn |-> c, taken |-> <<>>, send |-> NotCalled]
    ELSE IF c.m_write_pos + Len(data.bytes) > ConnBufSize
    THEN [ret |-> FALSE, conn |-> c, taken |-> <<>>, send |-> NotCalled]
    ELSE LET w == handle_write_event(Copied(c, data.bytes), outcome)
         IN [w EXCEPT !.ret = w.ret \/ w.conn.m_write_pos > 0]

\* the data passed to send_data: the null pointer, or 0 .. ConnBufSize + 1
\* bytes 101, 102, ...
SendData ==
    {NullData} \cup {[null |-> FALSE, bytes |-> [i \in 1..n |-> 100 + i]] :
                        n \in 0..(ConnBufSize + 1)}

\* the call that is made now, with the handler it finds
ConnCall(op, data, r) ==
    /\ ch_ops < MaxConnOps
    /\ ch_ops' = ch_ops + 1
    /\ ch_call' = [op |-> op, data |-> data, before |-> conn,
                   send |-> r.send, ret |-> r.ret]
    /\ conn' = r.conn
    /\ socket_out' = socket_out \o r.taken

\* connection.send_data(data, length)
SendDataCall ==
    \E data \in SendData :
        \E outcome \in SendOutcomes(
                conn.m_write_pos + Len(data.bytes)) :
            ConnCall("send_data", data, send_data(conn, data, outcome))

\* connection.handle_write_event(), called by the event loop
WriteEvent ==
    \E outcome \in SendOutcomes(conn.m_write_pos) :
        ConnCall("handle_write_event", [null |-> FALSE, bytes |-> <<>>],
                 handle_write_event(conn, outcome))

\* connection.close()
ConnClose ==
    /\ ch_ops < MaxConnOps
    /\ ch_ops' = ch_ops + 1
    /\ ch_call' = [op |-> "close"]
    /\ conn' = [conn EXCEPT !.m_is_active = FALSE]
    /\ UNCHANGED socket_out

----------------------------------------------------------------------------
(* A reader that takes frames off a byte stream with deserialize_frame *)

\* frames at the head of a stream
MaxFrames == 2

\* the input bytes deserialize_header reads, as indices from data
deserialize_header_reads(data, length) ==
    IF length < FRAME_HEADER_SIZE THEN {} ELSE 0..(FRAME_HEADER_SIZE - 1)

\* the input bytes read behind the header: the checksum, and the payload for
\* crc32::calculate and for payload.assign
BodyReads(header) ==
    LET c == FRAME_HEADER_SIZE + header.payload_length IN
    (c..(c + CHECKSUM_SIZE - 1)) \cup (FRAME_HEADER_SIZE..(c - 1))

\* A plausible slip: the check for the full frame is left out.
deserialize_frame_reads_unchecked(data, length) ==
    LET hd == deserialize_header(data, length, UnsetHeader) IN
    deserialize_header_reads(data, length)
        \cup (IF hd.n = 0 THEN {} ELSE BodyReads(hd.header))

\* the input bytes deserialize_frame reads
deserialize_frame_reads(data, length) ==
    LET hd == deserialize_header(data, length, UnsetHeader) IN
    deserialize_header_reads(data, length)
        \cup (IF hd.n = 0 THEN {}
              ELSE IF length < calculate_frame_size(hd.header) THEN {}
              ELSE BodyReads(hd.header))

\* the input bytes validate_frame reads
validate_frame_reads(frame_data, frame_size) ==
    IF frame_size < MIN_FRAME_SIZE THEN {}
    ELSE LET hd == deserialize_header(frame_data, frame_size, UnsetHeader) IN
         deserialize_header_reads(frame_data, frame_size)
             \cup (IF hd.n = 0 THEN {}
                   ELSE IF frame_size # calculate_frame_size(hd.header) THEN {}
                   ELSE BodyReads(hd.header))

\* no stream yet
NoInput == [given |-> FALSE, frames |-> << >>, tail |-> << >>, bytes |-> << >>]

NoReaderCall == [fn |-> "none", stopped |-> FALSE]

ReadInit ==
    /\ rd_input = NoInput
    /\ rd_offset = 0
    /\ rd_header = UnsetHeader
    /\ rd_payload = << >>
    /\ rd_got = << >>
    /\ rd_call = NoReaderCall

\* the valid frames a stream is built from: a header and n payload bytes
StreamFrames ==
    {<<[magic |-> PROTOCOL_MAGIC, version |-> PROTOCOL_VERSION,
        message_type |-> ECHO, flags |-> 0, payload_length |-> n,
        reserved |-> 0],
       [i \in 1..n |-> 16 * n + i]>> : n \in 0..MaxPayload}

\* one to MaxFrames of them
FrameLists == UNION {[1..k -> StreamFrames] : k \in 1..MaxFrames}

RECURSIVE Concat(_)
\* the frames of fs, one behind the other
Concat(fs) ==
    IF fs = << >> THEN << >>
    ELSE FrameOf(Head(fs)[1], Head(fs)[2]) \o Concat(Tail(fs))

\* what follows the frames: nothing, the start of a further frame, a frame
\* with a wrong checksum, a frame with a wrong magic byte
Tails ==
    LET f == FrameOf([magic |-> PROTOCOL_MAGIC, version |-> PROTOCOL_VERSION,
                      message_type |-> ECHO, flags |-> 0,
                      payload_length |-> 1, reserved |-> 0], <<7>>)
    IN {SubSeq(f, 1, n) : n \in {0, 1, 7, 8, 11, 12}}
         \cup {[f EXCEPT ![13] = FlipBit(@, 0)], [f EXCEPT ![1] = 0]}

\* The reader is handed a stream.
Receive(fs, tail) ==
    /\ ~rd_input.given
    /\ rd_input' = [given |-> TRUE, frames |-> fs, tail |-> tail,
                    bytes |-> Concat(fs) \o tail]
    /\ UNCHANGED <<rd_offset, rd_header, rd_payload, rd_got, rd_call>>

\* the input at the reader's offset
Remaining == SubSeq(rd_input.bytes, rd_offset + 1, Len(rd_input.bytes))

\* The reader parses at its offset and advances by consumed; it stops when
\* no bytes are left or when the call returns 0.
ReadFrame ==
    /\ rd_input.given
    /\ ~rd_call.stopped
    /\ LET data == Remaining
           length == Len(data)
           r == deserialize_frame(data, length, rd_header, rd_payload)
       IN IF length = 0
          THEN /\ rd_call' = [rd_call EXCEPT !.stopped = TRUE]
               /\ UNCHANGED <<rd_offset, rd_header, rd_payload, rd_got>>
          ELSE /\ rd_offset' = rd_offset + r.consumed
               /\ rd_header' = r.header
               /\ rd_payload' = r.payload
               /\ rd_got' = IF r.consumed > 0
                             THEN Append(rd_got, <<r.header, r.payload>>)
                             ELSE rd_got
               /\ rd_call' = [fn |-> "deserialize_frame", length |-> length,
                              ret |-> r.consumed,
                              reads |-> deserialize_frame_reads(data, length),
                              stopped |-> r.consumed = 0]
    /\ UNCHANGED rd_input

\* the lengths a caller passes with the input at the reader's offset
ProbeLengths == {n \in {0, 7, 8, 11, 12, 13} : n <= Len(Remaining)}

\* A caller passes the first length bytes at the reader's offset to
\* deserialize_header.
ProbeHeader(length) ==
    /\ rd_input.given
    /\ LET data == SubSeq(Remaining, 1, length)
           r == deserialize_header(data, length, UnsetHeader)
       IN rd_call' = [fn |-> "deserialize_header", length |-> length,
                      ret |-> r.n,
                      reads |-> deserialize_header_reads(data, length),
                      stopped |-> rd_call.stopped]
    /\ UNCHANGED <<rd_input, rd_offset, rd_header, rd_payload, rd_got>>

\* The same for deserialize_frame, with a header and a payload of its own.
ProbeFrame(length) ==
    /\ rd_input.given
    /\ LET data == SubSeq(Remaining, 1, length)
           r == deserialize_frame(data, length, UnsetHeader, << >>)
       IN rd_call' = [fn |-> "deserialize_frame", length |-> length,
                      ret |-> r.consumed,
                      reads |-> deserialize_frame_reads(data, length),
                      stopped |-> rd_call.stopped]
    /\ UNCHANGED <<rd_input, rd_offset, rd_header, rd_payload, rd_got>>

\* The same for validate_frame.
ProbeValidate(length) ==
    /\ rd_input.given
    /\ LET data == SubSeq(Remaining, 1, length)
       IN rd_call' = [fn |-> "validate_frame", length |-> length,
                      ret |-> IF validate_frame(data, length) THEN 1 ELSE 0,
                      reads |-> validate_frame_reads(data, length),
                      stopped |-> rd_call.stopped]
    /\ UNCHANGED <<rd_input, rd_offset, rd_header, rd_payload, rd_got>>

----------------------------------------------------------------------------
(* AsyncServer: the event loop and m_connections_mutex (AsyncServer.cpp) *)

\* client sockets that can connect
MaxClients == 2

\* calls of process_events in one run
MaxIterations == 2

Sockets == 1..MaxClients

\* no socket: accept_connection's INVALID_SOCKET, or m_connections.end()
NoSocket == 0

\* the thread that calls run()
LoopThread == "loop"

\* the network events of a client socket
ClientEvents == SUBSET {"FD_READ", "FD_WRITE", "FD_CLOSE"}

ServerInit ==
    /\ m_connections = {}
    /\ m_connections_mutex = NoThread
    /\ loop = [pc |-> "wait", it |-> NoSocket, events |-> {}, iterations |-> 0]

\* the first key of m_connections above socket s, or end()
IterFrom(s) ==
    IF \E c \in m_connections : c > s
    THEN CHOOSE c \in m_connections : c > s /\ \A d \in m_connections : d > s => c <= d
    ELSE NoSocket

\* What std::lock_guard<std::mutex> lock(m_connections_mutex) does to thread
\* t. A std::mutex is not recursive: when t owns it already the behaviour is
\* undefined, and the builds either never return from lock() or have it throw
\* std::system_error, which ends the program inside a noexcept function.
LockOutcomes(t) ==
    IF m_connections_mutex = t THEN {"blocked", "terminated"}
    ELSE IF m_connections_mutex = NoThread THEN {"acquired"}
    ELSE {}

\* process_events up to its second block: the listening socket's events, and
\* handle_new_connection on FD_ACCEPT, which locks the mutex for the insert
\* and releases it. accepted is the socket accept_connection returned.
ProcessEvents(accepted) ==
    /\ loop.pc = "wait"
    /\ loop.iterations < MaxIterations
    /\ accepted \in {NoSocket} \cup (Sockets \ m_connections)
    /\ "acquired" \in LockOutcomes(LoopThread)
    /\ m_connections' = IF accepted = NoSocket THEN m_connections
                        ELSE m_connections \cup {accepted}
    /\ loop' = [loop EXCEPT !.pc = "lock"]
    /\ UNCHANGED m_connections_mutex

\* process_events, line 110: the lock_guard of the second block, and
\* m_connections.begin()
LockConnections ==
    /\ loop.pc = "lock"
    /\ "acquired" \in LockOutcomes(LoopThread)
    /\ m_connections_mutex' = LoopThread
    /\ loop' = [loop EXCEPT !.pc = "visit", !.it = IterFrom(NoSocket)]
    /\ UNCHANGED m_connections

\* the body of the for loop up to the first event that is handled:
\* WSAEnumNetworkEvents gives the client's events
Visit(events) ==
    /\ loop.pc = "visit"
    /\ loop.it # NoSocket
    /\ loop' = [loop EXCEPT !.events = events,
                            !.pc = IF "FD_READ" \in events THEN "read"
                                   ELSE IF "FD_WRITE" \in events THEN "write"
                                   ELSE "after"]
    /\ UNCHANGED <<m_connections, m_connections_mutex>>

\* handle_client_read(client_socket), called at line 122: its first statement
\* locks m_connections_mutex. Past the lock it calls handle_read_event, whose
\* data-received callback calls send_to_client, which locks the mutex again.
HandleClientRead(outcome) ==
    /\ loop.pc = "read"
    /\ outcome \in LockOutcomes(LoopThread)
    /\ loop' = [loop EXCEPT !.pc = IF outcome = "acquired"
                                   THEN (IF "FD_WRITE" \in loop.events
                                         THEN "write" ELSE "after")
                                   ELSE outcome]
    /\ UNCHANGED <<m_connections, m_connections_mutex>>

\* handle_client_write(client_socket), called at line 128: its first
\* statement locks m_connections_mutex.
HandleClientWrite(outcome) ==
    /\ loop.pc = "write"
    /\ outcome \in LockOutcomes(LoopThread)
    /\ loop' = [loop EXCEPT !.pc = IF outcome = "acquired" THEN "after"
                                   ELSE outcome]
    /\ UNCHANGED <<m_connections, m_connections_mutex>>

\* the rest of the loop body: on FD_CLOSE the client is erased, otherwise the
\* iterator moves on (the handler is active: nothing has deactivated it)
AfterEvents ==
    /\ loop.pc = "after"
    /\ m_connections' = IF "FD_CLOSE" \in loop.events
                        THEN m_connections \ {loop.it} ELSE m_connections
    /\ loop' = [loop EXCEPT !.pc = "visit", !.it = IterFrom(loop.it),
                            !.events = {}]
    /\ UNCHANGED m_connections_mutex

\* it == m_connections.end(): the lock_guard releases the mutex and
\* process_events returns
EndIteration ==
    /\ loop.pc = "visit"
    /\ loop.it = NoSocket
    /\ m_connections_mutex' = NoThread
    /\ loop' = [loop EXCEPT !.pc = "wait", !.iterations = @ + 1]
    /\ UNCHANGED m_connections

----------------------------------------------------------------------------
(* Specifications *)

vars == <<regVars, serVars, valVars, msgVars, crcVars, bitVars, endVars,
          queueVars, poolVars, netVars, connVars, readVars, serverVars>>

Init ==
    /\ RegInit /\ SerInit /\ ValInit /\ MsgInit /\ CrcInit
    /\ BitInit /\ EndInit /\ QueueInit /\ PoolInit /\ NetInit
    /\ ConnInit /\ ReadInit /\ ServerInit

\* the dispatch registry, used by the threads of Threads
Next ==
    \/ \E t \in Threads : RegisterNull(t) /\ UNCHANGED exceptReg
    \/ \E t \in Threads, ty \in MsgTypes : RegisterCall(t, ty) /\ UNCHANGED exceptReg
    \/ \E t \in Threads : RegisterBody(t) /\ UNCHANGED exceptReg
    \/ \E t \in Threads, ty \in MsgTypes : UnregisterCall(t, ty) /\ UNCHANGED exceptReg
    \/ \E t \in Threads : UnregisterBody(t) /\ UNCHANGED exceptReg
    \/ \E t \in Threads : ClearCall(t) /\ UNCHANGED exceptReg
    \/ \E t \in Threads : ClearBody(t) /\ UNCHANGED exceptReg
    \/ \E t \in Threads, ty \in MsgTypes : HasHandlerCall(t, ty) /\ UNCHANGED exceptReg
    \/ \E t \in Threads : HasHandlerBody(t) /\ UNCHANGED exceptReg
    \/ \E t \in Threads : HandlerCountCall(t) /\ UNCHANGED exceptReg
    \/ \E t \in Threads : HandlerCountBody(t) /\ UNCHANGED exceptReg
    \/ \E t \in Threads, ty \in MsgTypes : DispatchCall(t, ty) /\ UNCHANGED exceptReg
    \/ \E t \in Threads : DispatchGet(t) /\ UNCHANGED exceptReg
    \/ \E t \in Threads : Handle(t) /\ UNCHANGED exceptReg
    \/ \E t \in Threads, r \in BOOLEAN : CallbackReturn(t, r) /\ UNCHANGED exceptReg

Spec == Init /\ [][Next]_vars

\* the frame codec: one writer, one buffer, one reader
NextSer ==
    \/ \E h \in Headers, payload \in Payloads :
          Serialize(h, payload) /\ UNCHANGED exceptSer
    \/ Clear /\ UNCHANGED exceptSer
    \/ \E k \in {0, 1} : Poll(k) /\ UNCHANGED exceptSer
    \/ \E i \in 1..BufSize, b \in 0..7 : Corrupt(i, b) /\ UNCHANGED exceptSer

SpecSer == Init /\ [][NextSer]_vars

\* the frame codec under a caller that checks what the buffer holds
NextVal ==
    \/ \E h \in Headers, payload \in Payloads :
          Serialize(h, payload) /\ UNCHANGED exceptSer
    \/ Clear /\ va' = NoValidate /\ UNCHANGED exceptSerVal
    \/ \E off \in 0..BufSize, n \in 0..BufSize :
          Check(off, n) /\ UNCHANGED exceptSerVal

SpecVal == Init /\ [][NextVal]_vars

\* the message handlers and their decoders
NextMsg ==
    \/ \E T \in {ECHO, DATA, STATUS} :
       \E declared \in Declared(T) :
       \E length \in Lengths(T, declared), junk \in Junk,
          fn \in BOOLEAN, r \in BOOLEAN :
          HandleCall(T, declared, length, junk, fn, r) /\ UNCHANGED exceptMsg
    \/ \E T \in {ECHO, DATA, STATUS} :
       \E declared \in Declared(T) :
       \E length \in Lengths(T, declared), junk \in Junk :
          DecodeCall(T, declared, length, junk) /\ UNCHANGED exceptMsg
    \/ \E abi \in ABIs, sequence_id \in SequenceIds, timestamp \in Timestamps :
          PingSend(abi, sequence_id, timestamp) /\ UNCHANGED exceptMsg
    \/ PingReceive /\ UNCHANGED exceptMsg
    \/ \E r \in BOOLEAN : PingDispatch(r) /\ UNCHANGED exceptMsg

SpecMsg == Init /\ [][NextMsg]_vars

\* crc32::calculate called by the threads of Threads, at any time
NextCrc ==
    \/ \E t \in Threads : CalcCall(t, <<49>>) /\ UNCHANGED exceptCrc
    \/ \E t \in Threads : InitCheck(t) /\ UNCHANGED exceptCrc
    \/ \E t \in Threads : InitStore(t) /\ UNCHANGED exceptCrc
    \/ \E t \in Threads : InitDone(t) /\ UNCHANGED exceptCrc
    \/ \E t \in Threads : InitFlagEarly(t) /\ UNCHANGED exceptCrc
    \/ \E t \in Threads : CalcRound(t) /\ UNCHANGED exceptCrc
    \/ \E t \in Threads : CalcReturn(t) /\ UNCHANGED exceptCrc

SpecCrc == Init /\ [][NextCrc]_vars

\* crc32::calculate called by one thread at a time
NextCrcSeq ==
    \/ \E t \in Threads, data \in CrcInputs :
          Alone(t) /\ CalcCall(t, data) /\ UNCHANGED exceptCrc
    \/ \E t \in Threads : InitCheck(t) /\ UNCHANGED exceptCrc
    \/ \E t \in Threads : InitStore(t) /\ UNCHANGED exceptCrc
    \/ \E t \in Threads : InitDone(t) /\ UNCHANGED exceptCrc
    \/ \E t \in Threads : InitFlagEarly(t) /\ UNCHANGED exceptCrc
    \/ \E t \in Threads : CalcRound(t) /\ UNCHANGED exceptCrc
    \/ \E t \in Threads : CalcReturn(t) /\ UNCHANGED exceptCrc

SpecCrcSeq == Init /\ [][NextCrcSeq]_vars

\* a caller of BitPackUtils with one zero-initialised buffer
NextBits ==
    \/ \E offset \in NextOffsets, value \in BitValues, num_bits \in NextBitCounts :
         PackBits(offset, value, num_bits) /\ UNCHANGED exceptBits
    \/ \E offset \in NextOffsets, value \in BOOLEAN :
         PackBool(offset, value) /\ UNCHANGED exceptBits
    \/ \E offset \in NextOffsets, value \in {165} :
         PackUint8(offset, value) /\ UNCHANGED exceptBits
    \/ \E offset \in NextOffsets, value \in {4660} :
         PackUint16(offset, value) /\ UNCHANGED exceptBits
    \/ \E offset \in NextOffsets, value \in {Word(4660, 22136)} :
         PackUint32(offset, value) /\ UNCHANGED exceptBits
    \/ \E i \in 1..MaxFields : Unpack(i) /\ UNCHANGED exceptBits
    \/ \E num_bits \in {0, 33} :
         UnpackRefused(bit_offset, num_bits) /\ UNCHANGED exceptBits

SpecBits == Init /\ [][NextBits]_vars

\* a caller that packs values and later packs new values over them
NextBitsRepack ==
    \/ \E offset \in NextOffsets, value \in BitValues, num_bits \in NextBitCounts :
         PackBits(offset, value, num_bits) /\ UNCHANGED exceptBits
    \/ \E i \in 1..MaxFields, value \in RepackValues :
         Repack(i, value) /\ UNCHANGED exceptBits
    \/ \E i \in 1..MaxFields : Unpack(i) /\ UNCHANGED exceptBits

SpecBitsRepack == Init /\ [][NextBitsRepack]_vars

\* a caller of EndianUtils
NextEnd ==
    \/ \E fn \in EndianFns, width \in {16, 32, 64} :
         \E value \in EndianValues(width) :
             EndianCall(fn, width, value) /\ UNCHANGED exceptEnd
    \/ \E fn \in EndianFns : EndianCallBack(fn) /\ UNCHANGED exceptEnd

SpecEnd == Init /\ [][NextEnd]_vars

\* the threads of Threads calling one LockFreeQueue
NextQueue ==
    \/ \E t \in Threads : ThreadEnqueue(t) /\ UNCHANGED exceptQueue
    \/ \E t \in Threads : ThreadDequeue(t) /\ UNCHANGED exceptQueue
    \/ \E t \in Threads :
         EnqueueLoad(t) /\ UNCHANGED callerVars /\ UNCHANGED exceptQueue
    \/ \E t \in Threads :
         EnqueueCas(t) /\ UNCHANGED callerVars /\ UNCHANGED exceptQueue
    \/ \E t \in Threads :
         EnqueueWrite(t) /\ UNCHANGED callerVars /\ UNCHANGED exceptQueue
    \/ \E t \in Threads :
         DequeueLoad(t) /\ UNCHANGED <<q_started, m_queue, mq_call>>
                        /\ UNCHANGED exceptQueue
    \/ \E t \in Threads :
         DequeueCas(t) /\ UNCHANGED callerVars /\ UNCHANGED exceptQueue
    \/ \E t \in Threads :
         DequeueRead(t) /\ UNCHANGED callerVars /\ UNCHANGED exceptQueue
    \/ StartDrain /\ UNCHANGED exceptQueue

SpecQueue == Init /\ [][NextQueue]_vars

\* one thread calling a LockFreeQueue<int, Capacity> and a
\* MutexQueue<int, Capacity - 1> in step
NextQueueSeq ==
    \/ SeqEnqueue("t1") /\ UNCHANGED exceptQueue
    \/ SeqDequeue("t1") /\ UNCHANGED exceptQueue
    \/ EnqueueLoad("t1") /\ UNCHANGED callerVars /\ UNCHANGED exceptQueue
    \/ EnqueueCas("t1") /\ UNCHANGED callerVars /\ UNCHANGED exceptQueue
    \/ EnqueueWrite("t1") /\ UNCHANGED callerVars /\ UNCHANGED exceptQueue
    \/ DequeueLoad("t1") /\ UNCHANGED <<q_started, m_queue, mq_call>>
                         /\ UNCHANGED exceptQueue
    \/ DequeueCas("t1") /\ UNCHANGED callerVars /\ UNCHANGED exceptQueue
    \/ DequeueRead("t1") /\ UNCHANGED callerVars /\ UNCHANGED exceptQueue

SpecQueueSeq == Init /\ [][NextQueueSeq]_vars

\* one ThreadPool, its workers, the threads that submit and the thread that
\* shuts it down
NextPool ==
    \/ \E w \in Workers : WorkerLocked(w) /\ UNCHANGED exceptPool
    \/ \E w \in Workers : WorkerRun(w) /\ UNCHANGED exceptPool
    \/ \E w \in Workers : SpuriousWakeup(w) /\ UNCHANGED exceptPool
    \/ \E t \in Threads : SubmitLocked(t, "a") /\ UNCHANGED exceptPool
    \/ \E t \in Threads : SubmitNotify(t) /\ UNCHANGED exceptPool
    \/ ShutdownLocked("a") /\ UNCHANGED exceptPool
    \/ ShutdownNotify /\ UNCHANGED exceptPool
    \/ ShutdownJoin /\ UNCHANGED exceptPool

SpecPool == Init /\ [][NextPool]_vars

\* the steps a thread takes once it is scheduled: every step but the calls
\* the callers may or may not make, and the wake-ups nobody owes
PoolFairness ==
    /\ \A w \in Workers : WF_vars(WorkerLocked(w) /\ UNCHANGED exceptPool)
    /\ \A w \in Workers : WF_vars(WorkerRun(w) /\ UNCHANGED exceptPool)
    /\ \A t \in Threads : WF_vars(SubmitNotify(t) /\ UNCHANGED exceptPool)
    /\ WF_vars(ShutdownNotify /\ UNCHANGED exceptPool)
    /\ WF_vars(ShutdownJoin /\ UNCHANGED exceptPool)

\* the pool under fair scheduling
SpecPoolFair == SpecPool /\ PoolFairness

\* the pool, and the pool move-constructed from it
NextPoolMove ==
    \/ \E w \in Workers : WorkerLocked(w) /\ UNCHANGED exceptPool
    \/ \E w \in Workers : WorkerRun(w) /\ UNCHANGED exceptPool
    \/ \E w \in Workers : SpuriousWakeup(w) /\ UNCHANGED exceptPool
    \/ \E t \in Threads, p \in Pools : SubmitLocked(t, p) /\ UNCHANGED exceptPool
    \/ \E t \in Threads : SubmitNotify(t) /\ UNCHANGED exceptPool
    \/ \E p \in Pools : ShutdownLocked(p) /\ UNCHANGED exceptPool
    \/ ShutdownNotify /\ UNCHANGED exceptPool
    \/ ShutdownJoin /\ UNCHANGED exceptPool
    \/ MoveConstruct /\ UNCHANGED exceptPool

\* the two pools under fair scheduling
SpecPoolMove == Init /\ [][NextPoolMove]_vars /\ PoolFairness

\* one caller of a NetworkBuffer
NextNet ==
    \/ \E length \in WriteLengths : NetWrite(length) /\ UNCHANGED exceptNet
    \/ NetWriteByte /\ UNCHANGED exceptNet
    \/ NetWriteUint16 /\ UNCHANGED exceptNet
    \/ NetWriteUint32 /\ UNCHANGED exceptNet
    \/ \E length \in ReadLengths : NetRead(length) /\ UNCHANGED exceptNet
    \/ NetReadByte /\ UNCHANGED exceptNet
    \/ NetReadUint16 /\ UNCHANGED exceptNet
    \/ NetReadUint32 /\ UNCHANGED exceptNet
    \/ NetReset /\ UNCHANGED exceptNet
    \/ NetResetRead /\ UNCHANGED exceptNet
    \/ NetClear /\ UNCHANGED exceptNet

SpecNet == Init /\ [][NextNet]_vars

\* one caller of a ConnectionHandler, and the socket under it
NextConn ==
    \/ SendDataCall /\ UNCHANGED exceptConn
    \/ WriteEvent /\ UNCHANGED exceptConn
    \/ ConnClose /\ UNCHANGED exceptConn

SpecConn == Init /\ [][NextConn]_vars

\* a reader of a byte stream
NextReader ==
    \/ \E fs \in FrameLists, tail \in Tails :
          Receive(fs, tail) /\ UNCHANGED exceptRead
    \/ ReadFrame /\ UNCHANGED exceptRead

SpecReader == Init /\ [][NextReader]_vars

\* the reader keeps running
SpecReaderFair == SpecReader /\ WF_vars(ReadFrame /\ UNCHANGED exceptRead)

\* the reader, and callers probing the same input
NextRead ==
    \/ \E fs \in FrameLists, tail \in Tails :
          Receive(fs, tail) /\ UNCHANGED exceptRead
    \/ ReadFrame /\ UNCHANGED exceptRead
    \/ \E length \in ProbeLengths : ProbeHeader(length) /\ UNCHANGED exceptRead
    \/ \E length \in ProbeLengths : ProbeFrame(length) /\ UNCHANGED exceptRead
    \/ \E length \in ProbeLengths : ProbeValidate(length) /\ UNCHANGED exceptRead

SpecRead == Init /\ [][NextRead]_vars

\* the event loop of an AsyncServer and the network under it
NextServer ==
    \/ \E accepted \in {NoSocket} \cup Sockets :
          ProcessEvents(accepted) /\ UNCHANGED exceptServer
    \/ LockConnections /\ UNCHANGED exceptServer
    \/ \E events \in ClientEvents : Visit(events) /\ UNCHANGED exceptServer
    \/ \E outcome \in LockOutcomes(LoopThread) :
          HandleClientRead(outcome) /\ UNCHANGED exceptServer
    \/ \E outcome \in LockOutcomes(LoopThread) :
          HandleClientWrite(outcome) /\ UNCHANGED exceptServer
    \/ AfterEvents /\ UNCHANGED exceptServer
    \/ EndIteration /\ UNCHANGED exceptServer

SpecServer == Init /\ [][NextServer]_vars

\* the loop thread keeps running
SpecServerFair == SpecServer /\ WF_vars(NextServer)

----------------------------------------------------------------------------
(* Claims about the dispatch registry, checked under Spec *)

\* The dispatch frames of thread t that hold a looked-up handler pointer:
\* pc "call" is after get_handler returned, pc "callback" is inside handle().
InFlight(t, i) ==
    /\ stack[t][i].op = "dispatch"
    /\ stack[t][i].pc \in {"call", "callback"}

\* Thread t leaves its innermost call, which is op at pc "body", in this step.
Returns(t, op) ==
    /\ InBody(t, op)
    /\ stack'[t] = SubSeq(stack[t], 1, Len(stack[t]) - 1)

\* The map owns live handlers, each under its own type, none twice.
OneHandlerPerType ==
    /\ \A ty \in Keys :
          /\ IsAlive(m_handlers[ty])
          /\ handlers[m_handlers[ty]].type = ty
    /\ \A h \in HandlerIds :
          Cardinality({ty \in Keys : m_handlers[ty] = h}) <= 1

\* C1: a handler that an in-flight dispatch has looked up is not destroyed
\* by a step of another thread before that dispatch's handle() call returns.
C1_HandlerOutlivesDispatch ==
    [][\A t \in Threads : \A i \in 1..Len(stack[t]) :
          (InFlight(t, i) /\ IsAlive(stack[t][i].h) /\ stack'[t] = stack[t])
             => handlers'[stack[t][i].h].state = "alive"]_vars

\* C2: m_mutex is held only by a thread whose innermost call is inside a
\* locked function body, never by a thread that is calling or running a
\* handler; so a callback's own registry call and the other threads' calls
\* find the mutex free or held by a call that releases it with its next step.
C2_CallbackOutsideLock ==
    /\ m_mutex # NoThread =>
          /\ Len(stack[m_mutex]) > 0
          /\ Top(m_mutex).pc = "body"
    /\ \A t \in Threads : \A i \in 1..Len(stack[t]) :
          (InFlight(t, i) /\ i = Len(stack[t])) => m_mutex # t

\* C2 witness: a callback called the registry and holds the lock in the
\* nested call, while its dispatch is still in progress.
C2_Witness ==
    \E t \in Threads :
        /\ Len(stack[t]) = 2
        /\ stack[t][1].op = "dispatch"
        /\ stack[t][1].pc = "callback"
        /\ stack[t][2].pc = "body"
        /\ m_mutex = t

\* C3: in every state there is at most one handler per type, and a
\* register_handler for a type that has a handler returns false and leaves
\* the map, with the original handler alive in it, as it was.
C3_RegistryUniqueness ==
    /\ OneHandlerPerType
    /\ [][/\ OneHandlerPerType'
          /\ \A t \in Threads :
               (Returns(t, "register") /\ Top(t).type \in Keys) =>
                  /\ ret'.op = "register"
                  /\ ret'.val = FALSE
                  /\ m_handlers' = m_handlers
                  /\ handlers'[m_handlers[Top(t).type]].state = "alive"
                  /\ handlers'[Top(t).h].state = "destroyed"]_vars

\* C3 witness: a second handler for a registered type has just been rejected.
C3_Witness ==
    /\ ret.op = "register"
    /\ ret.arg # NullHandler
    /\ ret.val = FALSE
    /\ handlers[ret.arg].state = "destroyed"
    /\ Keys # {}

\* C4: a dispatch for a type that has no handler returns false in the step
\* that looks the handler up: no handler is called, and the map, the handler
\* count and the handler objects are unchanged.
C4_DispatchUnregistered ==
    [][\A t \in Threads :
          (InBody(t, "dispatch") /\ Top(t).type \notin Keys /\ stack'[t] # stack[t]) =>
             /\ stack'[t] = SubSeq(stack[t], 1, Len(stack[t]) - 1)
             /\ ret'.op = "dispatch"
             /\ ret'.val = FALSE
             /\ m_handlers' = m_handlers
             /\ handler_count' = handler_count
             /\ handlers' = handlers]_vars

\* C4 witness: a dispatch returned false although no handler was ever built.
C4_Witness ==
    /\ ret.op = "dispatch"
    /\ ret.val = FALSE
    /\ nextId = 1

\* The registry agrees with the set of types whose last successful mutation
\* was a register.
AgreesWithSet ==
    /\ \A ty \in MsgTypes :
          /\ has_handler(ty) <=> ty \in registered
          /\ get_handler(ty).ptr # NullHandler <=> ty \in registered
    /\ handler_count = Cardinality(registered)

\* C5: has_handler, get_handler and handler_count agree with the set of
\* types whose last successful mutation was a register; unregister_handler
\* returns true exactly when the type was present and leaves it absent;
\* clear leaves the count at 0.
C5_RegistryIsASet ==
    /\ AgreesWithSet
    /\ [][/\ AgreesWithSet'
          /\ \A t \in Threads :
               /\ Returns(t, "unregister") =>
                     /\ ret'.op = "unregister"
                     /\ ret'.val = (Top(t).type \in registered)
                     /\ Top(t).type \notin Keys'
               /\ Returns(t, "clear") => handler_count' = 0]_vars

\* C5 witness: an unregister_handler has just returned true for a type while
\* another type stays registered.
C5_Witness ==
    /\ ret.op = "unregister"
    /\ ret.val = TRUE
    /\ ret.arg \notin Keys
    /\ registered # {}

----------------------------------------------------------------------------
(* Claims about the frame codec, checked under SpecSer *)

\* the observable result of a deserialize_frame call: the return value and
\* the caller's header and payload after the call
Result(d) == <<d.consumed, d.header, d.payload>>

\* C6: serialize_frame of a valid header h and a payload of h.payload_length
\* bytes into a buffer with room for the frame succeeds, and deserialize_frame
\* on the bytes it wrote returns the frame's size, a header equal to h and a
\* payload equal to p.
C6_RoundTrip ==
    [][\A h \in Headers, p \in Payloads :
          (/\ Serialize(h, p)
           /\ is_valid(h)
           /\ Len(p) = h.payload_length
           /\ m_write_pos + calculate_frame_size(h) <= BufSize)
          => /\ ser'.ok
             /\ LET w == SubSeq(m_buffer', m_write_pos + 1, m_write_pos') IN
                Result(deserialize_frame(w, Len(w), UnsetHeader, << >>))
                   = <<calculate_frame_size(h), h, p>>]_vars

\* the reader is fed, uncorrupted, a valid serialized frame
ValidFrameArriving ==
    /\ ser.ok
    /\ rx_flip = NoFlip
    /\ de # NoParse
    /\ Len(ser.payload) = ser.h.payload_length
    /\ Wire = FrameOf(ser.h, ser.payload)

\* C7: while a valid frame of size required arrives, deserialize_frame on a
\* prefix shorter than required returns 0 by its insufficient-data path, and
\* on the prefix of length required it returns required with the frame's
\* header and payload.
C7_StreamingReassembly ==
    ValidFrameArriving =>
        LET required == calculate_frame_size(ser.h) IN
        /\ de.len < required => de.consumed = 0 /\ de.at = "insufficient"
        /\ de.len = required =>
              /\ de.at = "ok"
              /\ Result(de) = <<required, ser.h, ser.payload>>

\* C7 witness: a valid frame with a payload has arrived byte by byte and the
\* call on the complete frame has returned it.
C7_Witness ==
    /\ ValidFrameArriving
    /\ ser.h.payload_length > 0
    /\ de.len = calculate_frame_size(ser.h)
    /\ de.consumed = de.len

\* C8: once a bit of the payload of a serialized frame has been flipped,
\* deserialize_frame on the complete frame returns 0 by its checksum path and
\* validate_frame returns false.
C8_ChecksumSensitivity ==
    (/\ ser.ok
     /\ Len(ser.payload) = ser.h.payload_length
     /\ rx_flip # NoFlip
     /\ rx_flip[1] \in (FRAME_HEADER_SIZE + 1)..(FRAME_HEADER_SIZE + Len(ser.payload)))
    => /\ de.len = Len(Wire)
       /\ de.consumed = 0
       /\ de.at = "checksum"
       /\ ~validate_frame(Wire, Len(Wire))

\* the return statements of deserialize_frame that report a failure
Failures == {"insufficient", "invalid_header", "checksum"}

\* C9: two consecutive deserialize_frame calls that fail for different
\* reasons give the caller different results.
C9_OutcomeIdentified ==
    [][(/\ de.at \in Failures
        /\ de'.at \in Failures
        /\ de'.at # de.at)
       => Result(de') # Result(de)]_vars

\* C10: a serialize_frame call that returns false leaves the buffer's bytes
\* and its write position as they were.
C10_SerializeAtomic ==
    [][((\E h \in Headers, p \in Payloads : Serialize(h, p)) /\ ~ser'.ok)
       => UNCHANGED <<m_buffer, m_write_pos>>]_vars

\* C11: the four bytes a successful serialize_frame call appends behind the
\* payload are the CRC32 of the payload bytes that call wrote, whatever the
\* write position was on entry.
C11_ChecksumOfOwnPayload ==
    ser.ok =>
        SubSeq(Written, Len(Written) - CHECKSUM_SIZE + 1, Len(Written))
           = WordBytes(calculate(ser.payload, 0, Len(ser.payload)))

\* the bytes the reader passed to its last deserialize_frame call
Passed == SubSeq(Wire, 1, de.len)

\* C12: deserialize_header returns 8 exactly when it is given at least 8
\* bytes of which byte 0 is 0xAB and byte 1 is 0x01, and 0 otherwise; when it
\* returns 8 the header holds bytes 2 and 3 verbatim and the little-endian
\* values of bytes 4-5 and 6-7.
C12_DeserializeHeader ==
    (ser.ok /\ de # NoParse) =>
        LET d == Passed
            r == deserialize_header(d, de.len, UnsetHeader)
            accepted == de.len >= 8 /\ d[1] = 171 /\ d[2] = 1
        IN /\ r.n = (IF accepted THEN 8 ELSE 0)
           /\ accepted =>
                 /\ r.header = [magic |-> 171, version |-> 1,
                                message_type |-> d[3], flags |-> d[4],
                                payload_length |-> d[5] + 256 * d[6],
                                reserved |-> d[7] + 256 * d[8]]
                 /\ de.header = r.header

\* C12 witness: the reader decoded a header whose payload_length has a
\* non-zero high byte, next to the reserved value 0x0102.
C12_Witness ==
    /\ ser.ok
    /\ de.len >= 8
    /\ Passed[1] = 171
    /\ Passed[2] = 1
    /\ Passed[6] = 1
    /\ de.header.payload_length >= 256
    /\ de.header.reserved = 258

----------------------------------------------------------------------------
(* Claims about validate_frame, checked under SpecVal *)

\* C13: on the same bytes and the same size, validate_frame returns true
\* exactly when deserialize_frame returns a non-zero consumed count.
C13_ValidateIsDeserialize ==
    va # NoValidate => (va.valid <=> de.consumed > 0)

----------------------------------------------------------------------------
(* Claims about the message handlers, checked under SpecMsg *)

\* C14: in the Ping scenario the payload is 12 wire bytes (sequence_id at
\* offset 0, timestamp at offset 4), the frame has 24 bytes, deserialize_frame
\* gives the same 12 bytes back, and the handler, given them with length 12,
\* invokes the callback with the encoded sequence_id and timestamp and
\* returns what the callback returned.
C14_PingEndToEnd ==
    hc.via = "scenario" =>
        /\ Len(hc.data) = 12
        /\ Len(hc.frame) = 24
        /\ hc.consumed = 24
        /\ hc.payload = hc.data
        /\ hc.length = 12
        /\ hc.invoked
        /\ hc.ret = hc.r
        /\ hc.msg.set
        /\ hc.msg.sequence_id = SubSeq(hc.data, 1, 4)
        /\ hc.msg.timestamp = SubSeq(hc.data, 5, 12)

\* C15: handle on the Echo handler invokes the callback exactly when the
\* payload has at least 2 bytes, the length L it declares in bytes 0-1 is at
\* most 256 and at least 2 + L bytes are passed; the callback then gets
\* length L and the L bytes from offset 2, and otherwise is not invoked and
\* handle fails.
C15_EchoDecoding ==
    (hc.via = "handle" /\ hc.type = ECHO /\ hc.fn) =>
        LET L == U16(hc.data, 0) IN
        IF hc.length >= 2 /\ L <= 256 /\ hc.length >= 2 + L
        THEN /\ hc.invoked
             /\ hc.ret = hc.r
             /\ hc.msg.length = L
             /\ hc.msg.data = SubSeq(hc.data, 3, 2 + L)
        ELSE ~hc.invoked /\ ~hc.ret

\* C16: handle on the Data handler invokes the callback exactly when the
\* payload has at least 6 bytes, the data_length in bytes 4-5 is at most 512
\* and at least 6 + data_length bytes are passed; the callback then gets
\* data_type (bytes 0-1), data_id (bytes 2-3), data_length and the bytes from
\* offset 6, and otherwise is not invoked and handle fails.
C16_DataDecoding ==
    (hc.via = "handle" /\ hc.type = DATA /\ hc.fn) =>
        IF /\ hc.length >= 6
           /\ U16(hc.data, 4) <= 512
           /\ hc.length >= 6 + U16(hc.data, 4)
        THEN /\ hc.invoked
             /\ hc.ret = hc.r
             /\ hc.msg.data_type = U16(hc.data, 0)
             /\ hc.msg.data_id = U16(hc.data, 2)
             /\ hc.msg.data_length = U16(hc.data, 4)
             /\ hc.msg.data = SubSeq(hc.data, 7, 6 + U16(hc.data, 4))
        ELSE ~hc.invoked /\ ~hc.ret

\* C17: handle on the Status handler invokes the callback for every payload
\* of at least 3 bytes and fails for shorter ones; the callback gets
\* status_code from byte 0, error_code from bytes 1-2 and, as message, the
\* first min(length - 3, 63) bytes that follow and a terminator.
C17_StatusDecoding ==
    (hc.via = "handle" /\ hc.type = STATUS /\ hc.fn) =>
        IF hc.length >= 3
        THEN LET n == IF hc.length - 3 < 63 THEN hc.length - 3 ELSE 63 IN
             /\ hc.invoked
             /\ hc.ret = hc.r
             /\ hc.msg.status_code = At(hc.data, 0)
             /\ hc.msg.error_code = U16(hc.data, 1)
             /\ hc.msg.message = SubSeq(hc.data, 4, 3 + n) \o <<0>>
        ELSE ~hc.invoked /\ ~hc.ret

\* C18: whatever bytes and length a decoder is given, it stores no more than
\* its array holds (Echo 256 bytes, Data 512 bytes, Status 63 message bytes
\* and a terminator); a successful Echo or Data decode stores exactly the
\* declared number of bytes, all of them inside the payload passed; and a
\* decode that fails has stored nothing.
C18_DecodersStayInBounds ==
    hc.via = "decode" =>
        /\ hc.type = ECHO => hc.written <= 256
        /\ hc.type = DATA => hc.written <= 512
        /\ hc.type = STATUS => hc.written <= 63 + 1
        /\ (hc.type = ECHO /\ hc.ret) =>
               /\ hc.length >= 2
               /\ hc.written = U16(hc.data, 0)
               /\ 2 + hc.written <= hc.length
        /\ (hc.type = DATA /\ hc.ret) =>
               /\ hc.length >= 6
               /\ hc.written = U16(hc.data, 4)
               /\ 6 + hc.written <= hc.length
        /\ (hc.type = STATUS /\ hc.ret) => 3 + (hc.written - 1) <= hc.length
        /\ ~hc.ret => hc.written = 0

\* an Echo decode that fills the whole array
C18_Witness ==
    /\ hc.via = "decode"
    /\ hc.type = ECHO
    /\ hc.ret
    /\ hc.written = MAX_DATA

\* C38: DataHandler::deserialize_payload reads no input byte at an index >=
\* length: bytes 4-5 (data_length) only when length >= 6, the data bytes only
\* when length >= 6 + data_length.
C38_DataReadsWithinLength ==
    (hc.via = "decode" /\ hc.type = DATA) =>
        \A i \in DataHandler_deserialize_payload_reads(hc.data, hc.length) :
            i < hc.length

----------------------------------------------------------------------------
(* Claims about crc32, checked under SpecCrc and SpecCrcSeq *)

\* C19: however the first calls of calculate by several threads interleave,
\* no call reads a table entry that has not been stored yet, and every call
\* returns the checksum a single-threaded call returns for the same bytes.
C19_NoPartialTable ==
    \A t \in Threads :
        /\ ~crc_call[t].partial
        /\ crc_call[t].pc = "done" =>
               crc_call[t].result
                   = calculate(crc_call[t].data, 0, Len(crc_call[t].data))

\* C20: calculate is the standard reflected CRC32: called by one thread at a
\* time, a call returns a value that depends on the bytes alone, the same on
\* the first call, which builds the table, and on later calls, and for
\* "123456789" that value is 0xCBF43926.
C20_StandardCrc32 ==
    \A t \in Threads :
        crc_call[t].pc = "done" =>
            /\ crc_call[t].result
                   = calculate(crc_call[t].data, 0, Len(crc_call[t].data))
            /\ crc_call[t].data = KnownVector =>
                   crc_call[t].result = Word(52212, 14630)
            /\ \A u \in Threads :
                   (crc_call[u].pc = "done" /\ crc_call[u].data = crc_call[t].data)
                       => crc_call[u].result = crc_call[t].result

\* "123456789" has gone through the call that built the table and through a
\* later call
C20_Witness ==
    /\ crc_call["t1"].pc = "done"
    /\ crc_call["t2"].pc = "done"
    /\ crc_call["t1"].data = KnownVector
    /\ crc_call["t2"].data = KnownVector
    /\ crc_call["t1"].i + crc_call["t2"].i = TABLE_SIZE

----------------------------------------------------------------------------
(* Claims about BitPackUtils, checked under SpecBits *)

\* bit k of the word x
WordBit(x, k) ==
    IF k < 16 THEN (x.lo \div 2 ^ k) % 2 ELSE (x.hi \div 2 ^ (k - 16)) % 2

\* bit p of the buffer: bit p % 8 of byte p / 8
BufBit(buffer, p) == (buffer[p \div 8 + 1] \div 2 ^ (p % 8)) % 2

\* C21: a value packed into the zero-initialised buffer, at any bit offset
\* and with any number of bits from 1 to 32, is read back by the matching
\* unpack call as the value's low num_bits bits (the whole value for
\* pack_bool, pack_uint8, pack_uint16 and pack_uint32), also after further
\* values were packed behind it at the offsets the pack calls returned.
C21_BitPackRoundTrip ==
    bit_call.op = "unpack" =>
        LET f == bit_fields[bit_call.field] IN
        IF f.op = "bits"
        THEN \A k \in 0..31 :
                 WordBit(bit_call.result, k)
                     = IF k < f.num_bits THEN WordBit(f.value, k) ELSE 0
        ELSE bit_call.result = f.value

\* the first of two values packed one behind the other, neither of them
\* aligned to a byte and both spanning several bytes, has been read back
C21_Witness ==
    /\ bit_call.op = "unpack"
    /\ bit_call.field = 1
    /\ Len(bit_fields) = 2
    /\ bit_fields[1].op = "bits"
    /\ bit_fields[1].offset % 8 # 0
    /\ bit_fields[1].num_bits = 13
    /\ bit_fields[1].value = Word(42435, 38505)
    /\ bit_fields[2].num_bits > 8
    /\ bit_fields[2].offset = bit_fields[1].offset + 13
    /\ bit_call.result = Word(0, 5737)

\* C22: pack_bits with num_bits 0 or above 32 returns the offset it was
\* given and changes no byte, and unpack_bits with such a num_bits returns 0;
\* pack_bits with num_bits from 1 to 32 returns offset + num_bits and changes
\* no bit of the buffer outside [offset, offset + num_bits), whatever the bits
\* of value above num_bits are.
C22_BitPackBounds ==
    /\ bit_call.op = "bits" =>
           IF bit_call.num_bits = 0 \/ bit_call.num_bits > 32
           THEN /\ bit_call.ret = bit_call.offset
                /\ bit_buffer = bit_call.before
           ELSE /\ bit_call.ret = bit_call.offset + bit_call.num_bits
                /\ \A p \in 0..(8 * BitBufSize - 1) :
                       (p < bit_call.offset \/ p >= bit_call.ret)
                           => BufBit(bit_buffer, p) = BufBit(bit_call.before, p)
    /\ bit_call.op = "unpack_bits" => bit_call.result = Word(0, 0)

\* pack_bits has refused 33 bits behind a packed value, and has packed a
\* value whose bits above num_bits are set
C22_Witness ==
    /\ bit_call.op = "bits"
    /\ bit_call.num_bits = 33
    /\ bit_call.ret = bit_call.offset
    /\ Len(bit_fields) = 1
    /\ bit_fields[1].op = "bits"
    /\ bit_fields[1].num_bits = 3
    /\ bit_fields[1].value = Word(65535, 65535)
    /\ bit_call.offset = bit_fields[1].offset + 3

\* C35: pack_bits writes the value into the buffer whatever the buffer held:
\* after pack_bits(buf, off, v, num_bits) with num_bits from 1 to 32 the bits
\* off .. off + num_bits - 1 are the low num_bits bits of v, so that
\* unpack_bits returns them, and every other bit is as it was.
C35_PackOverwrites ==
    bit_call.op = "repack" =>
        /\ bit_call.ret = bit_call.offset + bit_call.num_bits
        /\ \A p \in 0..(8 * BitBufSize - 1) :
              BufBit(bit_buffer, p)
                 = IF p >= bit_call.offset /\ p < bit_call.ret
                   THEN WordBit(bit_call.value, p - bit_call.offset)
                   ELSE BufBit(bit_call.before, p)
        /\ unpack_bits(bit_buffer, bit_call.offset, bit_call.num_bits)
              = MaskBits(bit_call.value, bit_call.num_bits)

----------------------------------------------------------------------------
(* Claims about EndianUtils, checked under SpecEnd *)

\* the bytes of a value of the given width, least significant first
ValueBytes(width, value) ==
    CASE width = 16 -> <<value % 256, value \div 256>>
      [] width = 32 -> WordBytes(value)
      [] width = 64 -> WordBytes(value.low) \o WordBytes(value.high)

\* a sequence, last element first
Reversed(s) == [i \in 1..Len(s) |-> s[Len(s) + 1 - i]]

\* C23: swap_uint16, swap_uint32 and swap_uint64 return their argument with
\* the order of its bytes reversed, and applied to their own result they
\* return the argument again; from_little_endian applied to the result of
\* to_little_endian, and from_big_endian applied to the result of
\* to_big_endian, return the argument again.
C23_EndianInvolution ==
    /\ en.fn = "swap" =>
           ValueBytes(en.width, en.result)
               = Reversed(ValueBytes(en.width, en.value))
    /\ (en.fn = "swap" /\ en.before = "swap") => en.result = en.original
    /\ (en.fn = "from_little_endian" /\ en.before = "to_little_endian")
           => en.result = en.original
    /\ (en.fn = "from_big_endian" /\ en.before = "to_big_endian")
           => en.result = en.original

\* 0x0102030405060708 has been swapped to 0x0807060504030201 and back
C23_Witness ==
    /\ en.fn = "swap"
    /\ en.before = "swap"
    /\ en.width = 64
    /\ en.value = Quad(Word(2055, 1541), Word(1027, 513))
    /\ en.result = Quad(Word(258, 772), Word(1286, 1800))

----------------------------------------------------------------------------
(* Claims about LockFreeQueue, checked under SpecQueue and SpecQueueSeq *)

\* the values stored and not yet handed out, as the positions tell
InQueue == {q_buffer[AndMASK(p)] : p \in m_dequeue_pos..(m_enqueue_pos - 1)}

\* successful calls of try_enqueue less successful calls of try_dequeue
Stored == Cardinality(q_enqueued) - Len(q_dequeued)

\* C24: with several producers and consumers, every value a successful
\* try_dequeue returned had been stored by a successful try_enqueue before,
\* no value is returned by two calls of try_dequeue, and, with no call in
\* progress, every value enqueued and not yet dequeued is still in the queue.
C24_MpmcQueue ==
    /\ \A i \in 1..Len(q_dequeued) : q_dequeued[i] \in q_enqueued
    /\ \A i, j \in 1..Len(q_dequeued) : i # j => q_dequeued[i] # q_dequeued[j]
    /\ AllIdle =>
           \A v \in q_enqueued :
               (\E i \in 1..Len(q_dequeued) : q_dequeued[i] = v) \/ v \in InQueue

\* C25: m_enqueue_pos - m_dequeue_pos stays within 0..Capacity - 1; with no
\* call in progress approximate_size() is the number of successful enqueues
\* less the number of successful dequeues; consumers that drain a queue
\* holding N values until try_dequeue fails make N successful dequeues
\* between them and leave is_empty() true.
C25_QueuePositions ==
    /\ m_enqueue_pos - m_dequeue_pos \in 0..(Capacity - 1)
    /\ AllIdle => approximate_size = Stored
    /\ (q_drain.started /\ q_drain.finished = Threads /\ AllIdle) =>
           /\ Len(q_dequeued) - q_drain.dequeued = q_drain.size
           /\ is_empty

\* two consumers have drained a full queue whose positions had wrapped
\* around the ring, and both have seen try_dequeue fail
C25_Witness ==
    /\ q_drain.started
    /\ q_drain.finished = Threads
    /\ AllIdle
    /\ q_drain.size = Capacity - 1
    /\ m_enqueue_pos > Capacity
    /\ m_dequeue_pos = m_enqueue_pos
    /\ Len(q_dequeued) = q_drain.dequeued + Capacity - 1

----------------------------------------------------------------------------
(* Claims about ThreadPool, checked under SpecPool, SpecPoolFair and SpecPoolMove *)

\* every task that submit pushed to pool p has been run exactly once
AllRun(p) == \A k \in Tasks : <<k, p>> \in submitted => executed[k] = 1

\* every worker thread has left workerLoop
AllExited == \A w \in Workers : worker[w].pc = "exited"

\* C27: under fair scheduling a call of shutdown() returns, and when it has
\* returned every task submit accepted has been run exactly once, every
\* worker has left workerLoop and none is blocked on the condition variable;
\* no task is ever run twice.
C27_GracefulShutdown ==
    /\ [](sd.pc = "returned" =>
              /\ AllRun("a")
              /\ AllExited
              /\ m_condition_variable["a"] = {})
    /\ [](\A k \in Tasks : executed[k] <= 1)
    /\ (sd.pc = "notify") ~> (sd.pc = "returned")

\* shutdown() has returned after two tasks were accepted, and both have run
C27_Witness ==
    /\ sd.pc = "returned"
    /\ submitted = {<<1, "a">>, <<2, "a">>}
    /\ executed[1] = 1
    /\ executed[2] = 1
    /\ AllExited

\* C28: a submit that reaches its check once shutdown() has set the flag
\* throws and leaves the task queue as it was; a submit that did not throw
\* has its task run before the last worker leaves workerLoop.
C28_SubmitAfterShutdown ==
    /\ [][\A t \in Threads :
              (m_shutdown["a"] /\ sub[t].pc = "idle" /\ sub'[t] # sub[t]) =>
                  /\ sub'[t].result = "threw"
                  /\ m_task_queue' = m_task_queue
                  /\ submitted' = submitted]_vars
    /\ [](AllExited => AllRun("a"))

\* of two submits racing with shutdown() one has thrown, and the other was
\* accepted and its task has run before the workers left
C28_Witness ==
    /\ sub["t1"].result = "threw"
    /\ sub["t2"].result = "returned"
    /\ sub["t2"].task < sub["t1"].task
    /\ executed[sub["t2"].task] = 1
    /\ AllExited
    /\ sd.pc = "join"

\* C29: after ThreadPool b = std::move(a), b holds as many workers as a held
\* and a reports isShutdown(); every task submitted to b is run by the
\* workers; b.shutdown() returns, all workers joined.
C29_MoveConstruction ==
    /\ []("b" \in pools => getNumThreads("b") = NumWorkers /\ isShutdown("a"))
    /\ \A k \in Tasks : (<<k, "b">> \in submitted) ~> (executed[k] = 1)
    /\ (sd.pc = "notify" /\ sd.pool = "b") ~> (sd.pc = "returned")
    /\ []((sd.pc = "returned" /\ sd.pool = "b") => AllRun("b") /\ AllExited)

----------------------------------------------------------------------------
(* Claims about NetworkBuffer, checked under SpecNet *)

\* the calls that write, and the calls that read
WriteOps == {"write", "write_byte", "write_uint16", "write_uint32"}

ReadOps == {"read", "read_byte", "read_uint16", "read_uint32"}

\* C30: after any sequence of calls 0 <= read_pos <= write_pos <= size,
\* available_read() is write_pos - read_pos and available_write() is
\* size - write_pos; a write of more bytes than the space left and a read of
\* more bytes than are unread return false and move neither position, and a
\* call that returns true moves its position by the length.
C30_BufferPositions ==
    /\ 0 <= m_read_pos
    /\ m_read_pos <= m_write_pos
    /\ m_write_pos <= Len(m_buffer)
    /\ available_read = m_write_pos - m_read_pos
    /\ available_read \in 0..Len(m_buffer)
    /\ available_write = Len(m_buffer) - m_write_pos
    /\ available_write \in 0..Len(m_buffer)
    /\ nb_call.op \in WriteOps =>
           IF nb_call.write_pos + nb_call.length > Len(m_buffer)
           THEN /\ nb_call.ok = FALSE
                /\ m_write_pos = nb_call.write_pos
                /\ m_read_pos = nb_call.read_pos
           ELSE /\ nb_call.ok = TRUE
                /\ m_write_pos = nb_call.write_pos + nb_call.length
                /\ m_read_pos = nb_call.read_pos
    /\ nb_call.op \in ReadOps =>
           IF nb_call.read_pos + nb_call.length > nb_call.write_pos
           THEN /\ nb_call.ok = FALSE
                /\ m_write_pos = nb_call.write_pos
                /\ m_read_pos = nb_call.read_pos
           ELSE /\ nb_call.ok = TRUE
                /\ m_read_pos = nb_call.read_pos + nb_call.length
                /\ m_write_pos = nb_call.write_pos

\* with one byte unread and bytes written behind the read position, a read
\* of three bytes has failed
C30_Witness ==
    /\ nb_call.op = "read"
    /\ nb_call.length = 3
    /\ nb_call.ok = FALSE
    /\ m_read_pos = 3
    /\ m_write_pos = 4
    /\ available_read = 1

----------------------------------------------------------------------------
(* Claims about ConnectionHandler, checked under SpecConn *)

\* the last call was send_data and it copied the data into the write buffer
DataAccepted ==
    /\ ch_call.op = "send_data"
    /\ ch_call.before.m_is_active
    /\ ~ch_call.data.null
    /\ Len(ch_call.data.bytes) > 0
    /\ ch_call.before.m_write_pos + Len(ch_call.data.bytes) <= ConnBufSize

\* C31: send_data returns true whenever the data was accepted (copied into
\* the write buffer, then sent in full, sent in part, or left queued), and
\* false on an error: inactive connection, null or empty data, no room in
\* the write buffer, or a send failure.
C31_SendDataResult ==
    ch_call.op = "send_data" =>
        (ch_call.ret = (DataAccepted /\ ch_call.send.kind # "error"))

----------------------------------------------------------------------------
(* Further claims about the frame codec, checked under SpecSer *)

\* the bytes of a frame that hold message_type, flags and reserved
UncheckedHeaderBytes == {3, 4, 7, 8}

\* a complete valid frame arrived with one of those bytes changed
HeaderByteChanged ==
    /\ ser.ok
    /\ Len(ser.payload) = ser.h.payload_length
    /\ Written = FrameOf(ser.h, ser.payload)
    /\ rx_flip # NoFlip
    /\ rx_flip[1] \in UncheckedHeaderBytes

C34_FrameSizeInvariant ==
    ser.ok =>
        /\ Len(Written) = FRAME_HEADER_SIZE + ser.h.payload_length + CHECKSUM_SIZE
        /\ Written[5] + 256 * Written[6]
              = Len(Written) - FRAME_HEADER_SIZE - CHECKSUM_SIZE

----------------------------------------------------------------------------
(* Claims about a reader of a byte stream: C33 checked under SpecReaderFair, *)
(* C36 and C37 under SpecRead *)

\* what the reader has obtained is the first frames of the stream, in order,
\* and its offset is the sum of their sizes
ObtainedInOrder ==
    /\ Len(rd_got) <= Len(rd_input.frames)
    /\ rd_got = SubSeq(rd_input.frames, 1, Len(rd_got))
    /\ rd_offset = Len(Concat(rd_got))

\* the reader has stopped with every frame of the stream, and with all bytes
\* consumed when nothing follows the frames
ReaderDone ==
    /\ rd_call.stopped
    /\ rd_got = rd_input.frames
    /\ rd_input.tail = << >> => rd_offset = Len(rd_input.bytes)

\* C33: on a complete valid frame followed by further bytes deserialize_frame
\* returns 8 + payload_length + 4 of that frame and ignores the rest, so a
\* reader that parses at its offset and advances by consumed obtains every
\* frame of a concatenation of valid frames, in order, and stops with all
\* bytes consumed.
C33_FrameByFrame ==
    /\ [](ObtainedInOrder
          /\ (rd_call.fn = "deserialize_frame" /\ rd_call.ret > 0 =>
                 \E f \in StreamFrames :
                    rd_call.ret = FRAME_HEADER_SIZE + Len(f[2]) + CHECKSUM_SIZE))
    /\ (rd_input.given ~> ReaderDone)

\* C33 witness: two different frames were taken off a stream that ends with
\* the second, and the reader stopped at its end
C33_Witness ==
    /\ rd_call.stopped
    /\ Len(rd_got) = 2
    /\ rd_got[1] # rd_got[2]
    /\ rd_got = rd_input.frames
    /\ rd_input.tail = << >>
    /\ rd_offset = Len(rd_input.bytes)

\* C36: a deserialize_frame call that returns 0 leaves the caller's payload
\* vector as it was before the call.
C36_PayloadKeptOnFailure ==
    [][(/\ rd_call' # rd_call
        /\ rd_call'.fn = "deserialize_frame"
        /\ rd_call'.ret = 0)
       => rd_payload' = rd_payload]_vars

\* C36 witness: the reader holds the payload of the frame it took last, and a
\* call on a frame with a wrong checksum has returned 0
C36_Witness ==
    /\ rd_call.fn = "deserialize_frame"
    /\ rd_call.ret = 0
    /\ rd_call.stopped
    /\ Len(rd_input.tail) = 13
    /\ rd_input.tail[1] = PROTOCOL_MAGIC
    /\ rd_got = rd_input.frames
    /\ rd_payload # << >>
    /\ rd_payload = rd_got[Len(rd_got)][2]

\* C37: deserialize_header, deserialize_frame and validate_frame read no
\* input byte at an index >= length: the header bytes only when length >= 8,
\* the payload and the checksum only when length >= 8 + payload_length + 4.
C37_ReadsWithinLength ==
    rd_call.fn # "none" =>
        /\ \A i \in rd_call.reads : 0 <= i /\ i < rd_call.length
        /\ rd_call.length < FRAME_HEADER_SIZE => rd_call.reads = {}
        /\ (\E i \in rd_call.reads : i >= FRAME_HEADER_SIZE) =>
               \E f \in StreamFrames \cup {<<UnsetHeader, <<7>>>>} :
                   /\ rd_call.length >= FRAME_HEADER_SIZE + Len(f[2]) + CHECKSUM_SIZE
                   /\ rd_call.reads = 0..(FRAME_HEADER_SIZE + Len(f[2]) + CHECKSUM_SIZE - 1)

\* C37 witness: deserialize_frame was passed the header of a frame and all
\* but the last byte behind it, and read the header only
C37_Witness ==
    /\ rd_call.fn = "deserialize_frame"
    /\ rd_call.length = 12
    /\ rd_call.ret = 0
    /\ rd_call.reads = 0..7
    /\ Len(rd_input.tail) = 12

----------------------------------------------------------------------------
(* Claims about AsyncServer, checked under SpecServerFair *)

\* C39: an event-loop iteration always completes: while process_events holds
\* m_connections_mutex, the calls it makes for a client's read or write event
\* never try to acquire the mutex on the thread that holds it, so the loop
\* thread does not block on itself.
C39_LoopNeverBlocksOnItself ==
    /\ [](loop.pc \in {"read", "write"} => m_connections_mutex # LoopThread)
    /\ [](loop.pc \notin {"blocked", "terminated"})
    /\ (loop.pc = "lock" ~> loop.pc = "wait")

====
